---- MODULE Spec2Model ----
(***************************************************************************)
(* Attendance bot: the attendance table and its check-in / check-out       *)
(* operations (database/models.py, database/db.py), the lateness           *)
(* classifier (database/schedule_models.py) and the chat handlers          *)
(* (handlers/attendance.py, utils/decorators.py).                          *)
(*                                                                         *)
(* Time is counted in seconds from a Monday 00:00:00 in the configured     *)
(* timezone; a date is the number of whole days since that Monday.         *)
(***************************************************************************)
EXTENDS Integers, FiniteSets, Sequences, TLC

\* ------------------------------------------------------------------ bounds
MaxUsers == 1
MaxCalls == 3
MaxDays == 2
MaxTicks == 7
MaxTeachers == 2

\* --------------------------------------------------------------- constants
DaySeconds == 24 * 60 * 60
GRACE_PERIOD_MINUTES == 15

Users == 1..MaxUsers
\* The user whose chat is followed: user_data, _rate_limit_store and the rows
\* are keyed by user id and no handler reads another user's entry.
Chatters == {1}
\* first names a Telegram profile may show
Profiles == {"Ali", "Vali"}
\* the first name the profile of a followed user shows throughout
KnownAs(u) == "Ali"
\* Config.SUPPORTED_LANGUAGES
SUPPORTED_LANGUAGES == {"en", "ru", "uz"}
Calls == 1..MaxCalls
Dates == 0..(MaxDays - 1)

\* An SQL NULL is the empty tuple, a stored value v is <<v>>.
NULL == << >>
Val(v) == <<v>>

\* datetime.date(): the calendar date of an instant
DateOf(t) == t \div DaySeconds

\* today = check_in_time.date()
CheckInDate(t) == DateOf(t)

CheckOutDate_Yesterday(t) == DateOf(t) - 1

\* today = check_out_time.date()
CheckOutDate(t) == DateOf(t)

VARIABLES
    attendance,   \* committed rows of the attendance table
    nextId,       \* AUTOINCREMENT counter of attendance.id
    call,         \* direct calls of Attendance.check_in / check_out: arguments, position, result
    dbLock,       \* the call whose connection holds the SQLite write lock, 0 if none
    txn,          \* the lock holder's uncommitted view of the table
    config,       \* Config: the schedule read from the environment at import
    clock,        \* the wall clock, in seconds
    ticks,        \* the place of the clock on the timeline
    teachers,     \* rows of the teachers table
    user_data,    \* context.user_data of each user: the two pending flags
    rate_limit_store, \* _rate_limit_store: user -> time of the last command let through
    last,         \* the update handled last and the reply it got
    outOk,        \* check-out successes reported so far, as <<user, date, n>>
    fnIn,         \* the argument a schedule function is applied to
    fnOut,        \* what it returned
    job,          \* the reminder job being run: kind, position, teachers left, sends made
    notifications_log \* rows of the notifications_log table

dbVars == <<attendance, nextId>>
callVars == <<call, dbLock, txn>>
chatVars == <<clock, ticks, teachers, user_data, rate_limit_store, last, outOk>>
fnVars == <<fnIn, fnOut>>
jobVars == <<job, notifications_log>>
vars == <<dbVars, callVars, config, chatVars, fnVars, jobVars>>

\* ----------------------------------------------------------- the database
\* Rows of attendance with the natural key (user_id, date).
RowsFor(att, u, d) == {r \in att : r.user_id = u /\ r.date = d}

\* INSERT INTO attendance (...) in Attendance.check_in, with UNIQUE(user_id, date).
NewRow_StampsCheckOut(id, u, t, lat, lon, late, st) ==
    [id |-> id, user_id |-> u, date |-> CheckInDate(t),
     check_in_time |-> Val(t),
     check_in_latitude |-> Val(lat),
     check_in_longitude |-> Val(lon),
     check_out_time |-> Val(t),
     check_out_latitude |-> NULL,
     check_out_longitude |-> NULL,
     total_hours |-> NULL,
     status |-> "checked_in",
     late_minutes |-> late,
     checkin_status |-> st]

NewRow_NoCoordinates(id, u, t, lat, lon, late, st) ==
    [id |-> id, user_id |-> u, date |-> CheckInDate(t),
     check_in_time |-> Val(t),
     check_in_latitude |-> NULL,
     check_in_longitude |-> NULL,
     check_out_time |-> NULL,
     check_out_latitude |-> NULL,
     check_out_longitude |-> NULL,
     total_hours |-> NULL,
     status |-> "checked_in",
     late_minutes |-> late,
     checkin_status |-> st]

NewRow(id, u, t, lat, lon, late, st) ==
    [id |-> id, user_id |-> u, date |-> CheckInDate(t),
     check_in_time |-> Val(t),
     check_in_latitude |-> Val(lat),
     check_in_longitude |-> Val(lon),
     check_out_time |-> NULL,
     check_out_latitude |-> NULL,
     check_out_longitude |-> NULL,
     total_hours |-> NULL,
     status |-> "checked_in",
     late_minutes |-> late,
     checkin_status |-> st]

InsertAttendance_NoUnique(att, id, u, t, lat, lon, late, st) ==
    [err |-> "ok", att |-> att \cup {NewRow(id, u, t, lat, lon, late, st)}]

InsertAttendance_OrReplace(att, id, u, t, lat, lon, late, st) ==
    [err |-> "ok",
     att |-> (att \ RowsFor(att, u, CheckInDate(t))) \cup {NewRow(id, u, t, lat, lon, late, st)}]

InsertAttendance(att, id, u, t, lat, lon, late, st) ==
    IF RowsFor(att, u, CheckInDate(t)) # {}
    THEN [err |-> "IntegrityError", att |-> att]
    ELSE [err |-> "ok", att |-> att \cup {NewRow(id, u, t, lat, lon, late, st)}]

\* SELECT check_in_time FROM attendance WHERE user_id = ? AND date = ?
SelectCheckInTime(att, u, d) == {r.check_in_time : r \in RowsFor(att, u, d)}

UpdateCheckOut_KeepsStatus(att, u, t, lat, lon, total) ==
    [rowcount |-> Cardinality(RowsFor(att, u, CheckOutDate(t))),
     att |-> {IF r.user_id = u /\ r.date = CheckOutDate(t)
              THEN [r EXCEPT !.check_out_time = Val(t),
                             !.check_out_latitude = Val(lat),
                             !.check_out_longitude = Val(lon),
                             !.total_hours = Val(total)]
              ELSE r : r \in att}]

UpdateCheckOut_TimeFirst(att, u, t, lat, lon, total) ==
    [rowcount |-> Cardinality(RowsFor(att, u, CheckOutDate(t))),
     att |-> {IF r.user_id = u /\ r.date = CheckOutDate(t)
              THEN [r EXCEPT !.check_out_time = Val(t)]
              ELSE r : r \in att}]

\* UPDATE attendance SET check_out_time = ?, ... WHERE user_id = ? AND date = ?
UpdateCheckOut(att, u, t, lat, lon, total) ==
    [rowcount |-> Cardinality(RowsFor(att, u, CheckOutDate(t))),
     att |-> {IF r.user_id = u /\ r.date = CheckOutDate(t)
              THEN [r EXCEPT !.check_out_time = Val(t),
                             !.check_out_latitude = Val(lat),
                             !.check_out_longitude = Val(lon),
                             !.total_hours = Val(total),
                             !.status = "checked_out"]
              ELSE r : r \in att}]

TotalHours_SinceMidnight(tin, tout) == tout % DaySeconds

\* (check_out_time - check_in_time).total_seconds() / 3600, kept in seconds:
\* the stored hours are this number divided by 3600.
TotalHours(tin, tout) == tout - tin


\* ---------------------------------------------------------- configuration
\* Config as loaded from the environment with its defaults.  A time of day
\* 'HH:MM' is the pair <<hours, minutes>>.
DefaultConfig ==
    [WORK_START_TIME |-> <<8, 0>>,
     WORK_END_TIME |-> <<17, 0>>,
     GRACE_PERIOD_MINUTES |-> GRACE_PERIOD_MINUTES,
     WORK_DAYS |-> {1, 2, 3, 4, 5},
     RADIUS_METERS |-> 50,
     SCHOOL_LATITUDE |-> 412995,
     SCHOOL_LONGITUDE |-> 692401,
     DEFAULT_LANGUAGE |-> "uz",
     MORNING_REMINDER_MINUTES_BEFORE |-> 15,
     LATE_WARNING_MINUTES_AFTER |-> 15,
     CHECKOUT_REMINDER_MINUTES_BEFORE |-> 15,
     FORGOTTEN_CHECKOUT_MINUTES_AFTER |-> 30]

\* Config.now(): the current instant in the configured timezone
Now == clock

\* Config.today(): the date of Config.now()
Today == DateOf(clock)

\* datetime.weekday(): 0 = Monday .. 6 = Sunday; date 0 is a Monday
Weekday(d) == d % 7

\* hour * 3600 + minute * 60 of a time of day
SecondsOfTime(hm) == hm[1] * 3600 + hm[2] * 60

\* ------------------------------------------------------ lateness classifier
\* scheduled_start = checkin_time.replace(hour, minute, second=0, microsecond=0)
ScheduledStart(t) == DateOf(t) * DaySeconds + SecondsOfTime(config.WORK_START_TIME)

\* grace_deadline = scheduled_start + timedelta(minutes=grace_period)
GraceDeadline(t) == ScheduledStart(t) + config.GRACE_PERIOD_MINUTES * 60

is_late_checkin_RoundsUp(t) ==
    IF t <= GraceDeadline(t)
    THEN <<FALSE, 0>>
    ELSE <<TRUE, (t - GraceDeadline(t) + 59) \div 60>>

is_late_checkin_FromStart(t) ==
    IF t <= GraceDeadline(t)
    THEN <<FALSE, 0>>
    ELSE <<TRUE, (t - ScheduledStart(t)) \div 60>>

\* WorkSchedule.is_late_checkin: <<is_late, minutes_late>>
is_late_checkin(t) ==
    IF t <= GraceDeadline(t)
    THEN <<FALSE, 0>>
    ELSE <<TRUE, (t - GraceDeadline(t)) \div 60>>

get_checkin_status_Under30(t) ==
    LET late == is_late_checkin(t)
    IN IF ~late[1] THEN "on_time"
       ELSE IF late[2] < 30 THEN "late"
       ELSE "very_late"

\* WorkSchedule.get_checkin_status
get_checkin_status(t) ==
    LET late == is_late_checkin(t)
    IN IF ~late[1] THEN "on_time"
       ELSE IF late[2] <= 30 THEN "late"
       ELSE "very_late"

\* ------------------------------------------------ direct calls of the store
\* Attendance.check_in and Attendance.check_out called directly, each call on
\* its own connection (get_db), so that calls may overlap.  SQLite lets one
\* connection write at a time: the write lock is taken by the first INSERT or
\* UPDATE of a transaction and released by commit.  A statement that finds the
\* lock taken waits for it (the guard dbLock = 0) or gives up after the
\* connection's timeout with "database is locked" (ExecBusy).

\* The arguments of the direct calls: call c checks in at 08:05:0c and checks
\* out at 16:30:0c of the date it is made for, from a latitude of its own, so
\* that no two calls write the same values.  Calls are numbered in the order
\* they are entered.
MorningOffset == 8 * 3600 + 5 * 60
AfternoonOffset == 16 * 3600 + 30 * 60
CheckInInstant(c, d) == d * DaySeconds + MorningOffset + c
CheckOutInstant(c, d) == d * DaySeconds + AfternoonOffset + c
StoreLatitude(c) == 412995 + c
StoreLongitude == 692401 + 0

\* op, pc, the arguments (user, time, lat; date is the date the caller means),
\* the return value, and what the call met:
\*   total     total_hours computed after the SELECT
\*   dup       check_in: the INSERT met a row of the same (user, date)
\*   noRow     check_out: the SELECT found no row dated as the caller means
\*   afterOut  check_out: entered after a check_out of the same (user, date) returned True
IdleCall == [op |-> "none", pc |-> "idle", user |-> 0, date |-> 0, time |-> 0, lat |-> 0,
             result |-> "none", total |-> 0, dup |-> FALSE, noRow |-> FALSE,
             afterOut |-> FALSE]

CheckedOutBefore(u, d) ==
    \E c \in Calls : /\ call[c].op = "check_out" /\ call[c].pc = "done"
                     /\ call[c].user = u /\ call[c].date = d
                     /\ call[c].result = "True"

\* models.py:150-156  the call is entered and get_db() opens its connection
CallCheckIn(c, u, d) ==
    /\ call[c].pc = "idle"
    /\ \A b \in Calls : b < c => call[b].pc # "idle"
    /\ call' = [call EXCEPT ![c] = [IdleCall EXCEPT !.op = "check_in", !.pc = "insert",
                                      !.user = u, !.date = d,
                                      !.time = CheckInInstant(c, d),
                                      !.lat = StoreLatitude(c)]]
    /\ UNCHANGED <<attendance, nextId, dbLock, txn>>
    /\ UNCHANGED <<config, chatVars, fnVars, jobVars>>

\* models.py:159-180  the INSERT: True on success, False on IntegrityError
ExecInsert(c) ==
    /\ call[c].pc = "insert"
    /\ dbLock = 0
    /\ LET r == InsertAttendance(attendance, nextId, call[c].user, call[c].time,
                                 call[c].lat, StoreLongitude, 0, "on_time")
       IN /\ txn' = r.att
          /\ call' = [call EXCEPT ![c].pc = "commit",
                                  ![c].result = IF r.err = "ok" THEN "True" ELSE "False",
                                  ![c].dup = RowsFor(attendance, call[c].user, call[c].date) # {}]
    /\ dbLock' = c
    /\ UNCHANGED <<attendance, nextId>>
    /\ UNCHANGED <<config, chatVars, fnVars, jobVars>>

\* models.py:182-184 and 243-245, db.py:39-43  the write lock stays with
\* another connection until the timeout: OperationalError, rollback, False
ExecBusy(c) ==
    /\ call[c].pc \in {"insert", "update"}
    /\ dbLock \notin {0, c}
    /\ call' = [call EXCEPT ![c].pc = "done", ![c].result = "False"]
    /\ UNCHANGED <<attendance, nextId, dbLock, txn>>
    /\ UNCHANGED <<config, chatVars, fnVars, jobVars>>

\* db.py:36-38  leaving the with block commits and releases the lock
Commit(c) ==
    /\ call[c].pc = "commit"
    /\ dbLock = c
    /\ attendance' = txn
    /\ nextId' = IF Cardinality(txn) > Cardinality(attendance) THEN nextId + 1 ELSE nextId
    /\ dbLock' = 0
    /\ call' = [call EXCEPT ![c].pc = "done"]
    /\ UNCHANGED <<txn, config, chatVars, fnVars, jobVars>>

\* models.py:198-204
CallCheckOut(c, u, d) ==
    /\ call[c].pc = "idle"
    /\ \A b \in Calls : b < c => call[b].pc # "idle"
    /\ call' = [call EXCEPT ![c] = [IdleCall EXCEPT !.op = "check_out", !.pc = "select",
                                      !.user = u, !.date = d,
                                      !.time = CheckOutInstant(c, d),
                                      !.lat = StoreLatitude(c),
                                      !.afterOut = CheckedOutBefore(u, d)]]
    /\ UNCHANGED <<attendance, nextId, dbLock, txn>>
    /\ UNCHANGED <<config, chatVars, fnVars, jobVars>>

\* models.py:207-218  SELECT check_in_time; no row: False
ExecSelect(c) ==
    /\ call[c].pc = "select"
    /\ LET found == SelectCheckInTime(attendance, call[c].user, CheckOutDate(call[c].time))
           none  == RowsFor(attendance, call[c].user, call[c].date) = {}
       IN IF found = {}
          THEN call' = [call EXCEPT ![c].pc = "done", ![c].result = "False",
                                    ![c].noRow = none]
          ELSE \E tin \in found :
                 call' = [call EXCEPT ![c].pc = "update", ![c].noRow = none,
                                      ![c].total = TotalHours(tin[1], call[c].time)]
    /\ UNCHANGED <<attendance, nextId, dbLock, txn>>
    /\ UNCHANGED <<config, chatVars, fnVars, jobVars>>

\* models.py:220-237  the UPDATE; rowcount 0: False
ExecUpdate(c) ==
    /\ call[c].pc = "update"
    /\ dbLock = 0
    /\ LET r == UpdateCheckOut(attendance, call[c].user, call[c].time, call[c].lat,
                               StoreLongitude, call[c].total)
       IN /\ txn' = r.att
          /\ call' = [call EXCEPT ![c].pc = "commit",
                                  ![c].result = IF r.rowcount = 0 THEN "False" ELSE "True"]
    /\ dbLock' = c
    /\ UNCHANGED <<attendance, nextId>>
    /\ UNCHANGED <<config, chatVars, fnVars, jobVars>>

\* no reminder job has run: kind of job, position, teachers still to be
\* looked at, and the sends attempted so far in their order
IdleJob == [kind |-> "none", pc |-> "idle", pending |-> {}, sends |-> << >>,
            aborted |-> FALSE]

NoUpdate == [user |-> 0, update |-> "none", outcome |-> "none", replies |-> 0,
             time |-> NULL, hours |-> NULL]

\* the state of a freshly started process on an empty database
FreshStart ==
    /\ attendance = {}
    /\ nextId = 1
    /\ call = [c \in Calls |-> IdleCall]
    /\ dbLock = 0
    /\ txn = {}
    /\ ticks = 0
    /\ teachers = {}
    /\ user_data = [u \in Chatters |-> [awaiting_checkin_location |-> "absent",
                                        awaiting_checkout_location |-> "absent"]]
    /\ rate_limit_store = [u \in Chatters |-> NULL]
    /\ last = NoUpdate
    /\ outOk = {}
    /\ job = IdleJob
    /\ notifications_log = {}

NothingApplied ==
    /\ fnIn = 0
    /\ fnOut = NULL

StoreInit ==
    /\ FreshStart
    /\ NothingApplied
    /\ config = DefaultConfig
    /\ clock = 0

StoreNext ==
    \/ \E c \in Calls, u \in Users, d \in Dates : CallCheckIn(c, u, d)
    \/ \E c \in Calls, u \in Users, d \in Dates : CallCheckOut(c, u, d)
    \/ \E c \in Calls : ExecInsert(c)
    \/ \E c \in Calls : ExecSelect(c)
    \/ \E c \in Calls : ExecUpdate(c)
    \/ \E c \in Calls : ExecBusy(c)
    \/ \E c \in Calls : Commit(c)

SpecStore == StoreInit /\ [][StoreNext]_vars

\* ------------------------------------------------------------ the handlers
\* The application handles one update at a time (Application.builder()
\* without concurrent_updates), and the store calls inside a handler are
\* synchronous, so each handler is one step.

\* Attendance.check_in run to completion on its own connection
Attendance_check_in(att, id, u, lat, lon, t, late, st) ==
    LET r == InsertAttendance(att, id, u, t, lat, lon, late, st)
    IN [ok |-> r.err = "ok", att |-> r.att,
        nextId |-> IF r.err = "ok" THEN id + 1 ELSE id]

\* Attendance.check_out run to completion on its own connection
Attendance_check_out(att, u, lat, lon, t) ==
    LET found == SelectCheckInTime(att, u, CheckOutDate(t))
    IN IF found = {}
       THEN [ok |-> FALSE, att |-> att]
       ELSE LET tin == CHOOSE x \in found : TRUE
                r == UpdateCheckOut(att, u, t, lat, lon, TotalHours(tin[1], t))
            IN IF r.rowcount = 0
               THEN [ok |-> FALSE, att |-> att]
               ELSE [ok |-> TRUE, att |-> r.att]

get_today_status_AnyUser(u) == {r \in attendance : r.date = Today}

\* Attendance.get_today_status: the rows of (user, Config.today()), none or one
get_today_status(u) == RowsFor(attendance, u, Today)

\* Teacher.get_by_id
get_by_id(u) == {r \in teachers : r.user_id = u}

create_or_update_InsertOnly(tbl, u, first_name, language, now) ==
    tbl \cup {[user_id |-> u, first_name |-> first_name, language |-> language,
               is_active |-> 1, notification_enabled |-> 1, updated_at |-> now]}

\* Teacher.create_or_update: INSERT ... ON CONFLICT(user_id) DO UPDATE SET the
\* profile columns, language and updated_at.  first_name stands for the
\* profile columns (username, first_name, last_name, phone_number), which the
\* statement treats alike; now is CURRENT_TIMESTAMP.  is_active and
\* notification_enabled take their column defaults on insert and are not in
\* the SET list.
create_or_update(tbl, u, first_name, language, now) ==
    IF \E r \in tbl : r.user_id = u
    THEN {IF r.user_id = u
          THEN [r EXCEPT !.first_name = first_name, !.language = language,
                         !.updated_at = now]
          ELSE r : r \in tbl}
    ELSE tbl \cup {[user_id |-> u, first_name |-> first_name, language |-> language,
                    is_active |-> 1, notification_enabled |-> 1, updated_at |-> now]}

\* Teacher.set_language: UPDATE teachers SET language, updated_at WHERE user_id
set_language(tbl, u, language, now) ==
    {IF r.user_id = u THEN [r EXCEPT !.language = language, !.updated_at = now] ELSE r
     : r \in tbl}

\* Teacher.set_notification_preference: UPDATE teachers SET
\* notification_enabled, updated_at WHERE user_id
set_notification_preference(tbl, u, enabled, now) ==
    {IF r.user_id = u
     THEN [r EXCEPT !.notification_enabled = IF enabled THEN 1 ELSE 0, !.updated_at = now]
     ELSE r
     : r \in tbl}

\* Locations a user may share, in 1/10000 degree: 22 m north of the school,
\* 111 m north of it, and a latitude beyond the pole.
Locations ==
    {[latitude |-> 412997, longitude |-> 692401],
     [latitude |-> 413005, longitude |-> 692401],
     [latitude |-> 910000, longitude |-> 692401]}

\* validate_coordinates: -90 <= latitude <= 90 and -180 <= longitude <= 180
validate_coordinates(lat, lon) ==
    /\ -900000 <= lat /\ lat <= 900000
    /\ -1800000 <= lon /\ lon <= 1800000

Abs(x) == IF x < 0 THEN -x ELSE x

\* Lengths are in tenths of a metre, so that a distance or a radius need not
\* be a whole number of metres.
Tenths(metres) == metres * 10

\* int(x) for x given in tenths: the fraction is dropped, toward zero
IntOfTenths(x) == IF x >= 0 THEN x \div 10 ELSE -((-x) \div 10)

\* the whole part of the square root of n, known to be at most hi
Isqrt(n, hi) == CHOOSE k \in 0..hi : k * k <= n /\ n < (k + 1) * (k + 1)

\* geodesic(point1, point2).meters for two points a few hundred metres
\* apart near the school: 1/10000 degree is 11.1 m of latitude and, at
\* 41.3 N, 8.3 m of longitude
geodesic(lat1, lon1, lat2, lon2) ==
    LET north == Abs(lat1 - lat2) * 111
        east == Abs(lon1 - lon2) * 83
    IN IF east = 0 THEN north
       ELSE IF north = 0 THEN east
       ELSE Isqrt(north * north + east * east, north + east)

\* what a call gives back: an exception, or a value
Raised(e) == [raised |-> e, value |-> NULL]
Returned(v) == [raised |-> "none", value |-> Val(v)]

calculate_distance_FromFirst(lat1, lon1, lat2, lon2) ==
    IF ~validate_coordinates(lat1, lon1) THEN Raised("ValueError")
    ELSE IF ~validate_coordinates(lat2, lon2) THEN Raised("ValueError")
    ELSE Returned(IF lat1 >= lat2 THEN geodesic(lat1, lon1, lat2, lon2)
                  ELSE geodesic(lat1, lon1, lat1, lon2))

\* calculate_distance
calculate_distance(lat1, lon1, lat2, lon2) ==
    IF ~validate_coordinates(lat1, lon1) THEN Raised("ValueError")
    ELSE IF ~validate_coordinates(lat2, lon2) THEN Raised("ValueError")
    ELSE Returned(geodesic(lat1, lon1, lat2, lon2))

is_within_radius_Inside(user_latitude, user_longitude, school_latitude, school_longitude, radius_meters) ==
    LET radius == IntOfTenths(radius_meters)
        distance == calculate_distance(user_latitude, user_longitude,
                                       school_latitude, school_longitude)
    IN IF radius <= 0 THEN Raised("ValueError")
       ELSE IF distance.raised # "none" THEN Raised(distance.raised)
       ELSE Returned(<<distance.value[1] < Tenths(radius), distance.value[1]>>)

\* is_within_radius: <<is_within, distance>>, the radius given in tenths of
\* a metre
is_within_radius(user_latitude, user_longitude, school_latitude, school_longitude, radius_meters) ==
    LET radius == IntOfTenths(radius_meters)
        distance == calculate_distance(user_latitude, user_longitude,
                                       school_latitude, school_longitude)
    IN IF radius <= 0 THEN Raised("ValueError")
       ELSE IF distance.raised # "none" THEN Raised(distance.raised)
       ELSE Returned(<<distance.value[1] <= Tenths(radius), distance.value[1]>>)

Reply(u, upd, outcome, t, h) ==
    last' = [user |-> u, update |-> upd, outcome |-> outcome, replies |-> 1,
             time |-> t, hours |-> h]

RateLimited_WithinOne(u) ==
    /\ rate_limit_store[u] # NULL
    /\ Now - rate_limit_store[u][1] < 1

\* rate_limit(seconds=2): the command comes too soon after the last one let through
RateLimited(u) ==
    /\ rate_limit_store[u] # NULL
    /\ Now - rate_limit_store[u][1] < 2

CheckinBody_AlwaysPrompts(u) ==
    /\ Reply(u, "checkin", "checkin_prompt", NULL, NULL)
    /\ user_data' = [user_data EXCEPT ![u].awaiting_checkin_location = "true"]

\* checkin_command below its decorators
CheckinBody(u) ==
    LET status == get_today_status(u)
    IN IF status # {}
       THEN /\ \E r \in status :
                 IF r.check_out_time # NULL
                 THEN Reply(u, "checkin", "already_checked_out", NULL, NULL)
                 ELSE Reply(u, "checkin", "already_checked_in", r.check_in_time, NULL)
            /\ UNCHANGED user_data
       ELSE /\ Reply(u, "checkin", "checkin_prompt", NULL, NULL)
            /\ user_data' = [user_data EXCEPT ![u].awaiting_checkin_location = "true"]

CheckoutBody_NoClosedCheck(u) ==
    LET status == get_today_status(u)
    IN IF status = {}
       THEN /\ Reply(u, "checkout", "not_checked_in", NULL, NULL)
            /\ UNCHANGED user_data
       ELSE /\ Reply(u, "checkout", "checkout_prompt", NULL, NULL)
            /\ user_data' = [user_data EXCEPT ![u].awaiting_checkout_location = "true"]

CheckoutBody_PromptsWithoutRecord(u) ==
    LET status == get_today_status(u)
    IN IF \E r \in status : r.check_out_time # NULL
       THEN /\ Reply(u, "checkout", "already_checked_out", NULL, NULL)
            /\ UNCHANGED user_data
       ELSE /\ Reply(u, "checkout", IF status = {} THEN "not_checked_in" ELSE "checkout_prompt",
                     NULL, NULL)
            /\ user_data' = [user_data EXCEPT ![u].awaiting_checkout_location = "true"]

\* checkout_command below its decorators
CheckoutBody(u) ==
    LET status == get_today_status(u)
    IN IF status = {}
       THEN /\ Reply(u, "checkout", "not_checked_in", NULL, NULL)
            /\ UNCHANGED user_data
       ELSE IF \E r \in status : r.check_out_time # NULL
       THEN /\ Reply(u, "checkout", "already_checked_out", NULL, NULL)
            /\ UNCHANGED user_data
       ELSE /\ Reply(u, "checkout", "checkout_prompt", NULL, NULL)
            /\ user_data' = [user_data EXCEPT ![u].awaiting_checkout_location = "true"]

Decorated_PerCommand(u, upd, body) ==
    IF RateLimited(u) /\ last.update = upd
    THEN /\ Reply(u, upd, "rate_limited", NULL, NULL)
         /\ UNCHANGED <<rate_limit_store, user_data>>
    ELSE /\ rate_limit_store' = [rate_limit_store EXCEPT ![u] = Val(Now)]
         /\ IF Weekday(Today) >= 5
            THEN /\ Reply(u, upd, "weekend", NULL, NULL)
                 /\ UNCHANGED user_data
            ELSE IF get_by_id(u) = {}
            THEN /\ Reply(u, upd, "not_registered", NULL, NULL)
                 /\ UNCHANGED user_data
            ELSE body

\* @rate_limit(seconds=2) @weekday_only @registered_user_only around a command
Decorated(u, upd, body) ==
    IF RateLimited(u)
    THEN /\ Reply(u, upd, "rate_limited", NULL, NULL)
         /\ UNCHANGED <<rate_limit_store, user_data>>
    ELSE /\ rate_limit_store' = [rate_limit_store EXCEPT ![u] = Val(Now)]
         /\ IF Weekday(Today) >= 5
            THEN /\ Reply(u, upd, "weekend", NULL, NULL)
                 /\ UNCHANGED user_data
            ELSE IF get_by_id(u) = {}
            THEN /\ Reply(u, upd, "not_registered", NULL, NULL)
                 /\ UNCHANGED user_data
            ELSE body

checkin_command(u) ==
    /\ Decorated(u, "checkin", CheckinBody(u))
    /\ UNCHANGED <<fnVars, jobVars, dbVars, callVars, config, clock, ticks, teachers, outOk>>

checkout_command(u) ==
    /\ Decorated(u, "checkout", CheckoutBody(u))
    /\ UNCHANGED <<fnVars, jobVars, dbVars, callVars, config, clock, ticks, teachers, outOk>>

\* process_checkin, and the flag handle_location clears after it
process_checkin(u, lat, lon) ==
    LET check_in_time == Now
        late == is_late_checkin(check_in_time)
        checkin_status == get_checkin_status(check_in_time)
        r == Attendance_check_in(attendance, nextId, u, lat, lon, check_in_time,
                                 late[2], checkin_status)
    IN /\ attendance' = r.att
       /\ nextId' = r.nextId
       /\ IF r.ok
          THEN Reply(u, "location", "checked_in", Val(check_in_time), NULL)
          ELSE Reply(u, "location", "checkin_failed", NULL, NULL)
       /\ user_data' = [user_data EXCEPT ![u].awaiting_checkin_location = "false"]
       /\ UNCHANGED outOk

CheckOutTime_UtcNow == Now - 5 * 3600

\* check_out_time = Config.now() in process_checkout
CheckOutTime == Now

\* process_checkout, and the flag handle_location clears after it
process_checkout(u, lat, lon) ==
    LET check_out_time == CheckOutTime
        status == get_today_status(u)
    IN /\ user_data' = [user_data EXCEPT ![u].awaiting_checkout_location = "false"]
       /\ IF status = {}
          THEN /\ Reply(u, "location", "not_checked_in", NULL, NULL)
               /\ UNCHANGED <<attendance, nextId, outOk>>
          ELSE \E row \in status :
               LET check_in_time == row.check_in_time[1]
                   r == Attendance_check_out(attendance, u, lat, lon, check_out_time)
               IN /\ attendance' = r.att
                  /\ UNCHANGED nextId
                  /\ IF r.ok
                     THEN /\ Reply(u, "location", "checked_out", Val(check_in_time),
                                   Val(TotalHours(check_in_time, check_out_time)))
                          /\ outOk' = outOk \cup
                                {<<u, Today,
                                   Cardinality({x \in outOk : x[1] = u /\ x[2] = Today}) + 1>>}
                     ELSE /\ Reply(u, "location", "checkout_failed", NULL, NULL)
                          /\ UNCHANGED outOk

WithinSchoolRadius_AnyDistance(lat, lon) ==
    LET r == is_within_radius(lat, lon, config.SCHOOL_LATITUDE, config.SCHOOL_LONGITUDE,
                              Tenths(config.RADIUS_METERS))
    IN IF r.raised # "none" THEN r ELSE Returned(<<TRUE, r.value[1][2]>>)

\* is_within_radius(user_lat, user_lon) as handle_location calls it: the
\* school and the radius default to those of Config
WithinSchoolRadius(lat, lon) ==
    is_within_radius(lat, lon, config.SCHOOL_LATITUDE, config.SCHOOL_LONGITUDE,
                     Tenths(config.RADIUS_METERS))

handle_location(u, loc) ==
    /\ IF ~validate_coordinates(loc.latitude, loc.longitude)
       THEN /\ Reply(u, "location", "invalid_location", NULL, NULL)
            /\ UNCHANGED <<attendance, nextId, user_data, outOk>>
       ELSE IF WithinSchoolRadius(loc.latitude, loc.longitude).raised # "none"
       THEN /\ Reply(u, "location", "location_validation_error", NULL, NULL)
            /\ UNCHANGED <<attendance, nextId, user_data, outOk>>
       ELSE IF ~WithinSchoolRadius(loc.latitude, loc.longitude).value[1][1]
       THEN /\ Reply(u, "location", "too_far", NULL, NULL)
            /\ UNCHANGED <<attendance, nextId, user_data, outOk>>
       ELSE IF user_data[u].awaiting_checkin_location = "true"
       THEN process_checkin(u, loc.latitude, loc.longitude)
       ELSE IF user_data[u].awaiting_checkout_location = "true"
       THEN process_checkout(u, loc.latitude, loc.longitude)
       ELSE /\ Reply(u, "location", "no_action", NULL, NULL)
            /\ UNCHANGED <<attendance, nextId, user_data, outOk>>
    /\ UNCHANGED <<fnVars, jobVars, callVars, config, clock, ticks, teachers, rate_limit_store>>

cancel_command_CheckinOnly(u) ==
    /\ user_data' = [user_data EXCEPT ![u].awaiting_checkin_location = "absent"]
    /\ Reply(u, "cancel", "cancelled", NULL, NULL)
    /\ UNCHANGED <<fnVars, jobVars, dbVars, callVars, config, clock, ticks, teachers, rate_limit_store, outOk>>

\* cancel_command: both flags are popped from user_data
cancel_command(u) ==
    /\ user_data' = [user_data EXCEPT ![u] = [awaiting_checkin_location |-> "absent",
                                              awaiting_checkout_location |-> "absent"]]
    /\ Reply(u, "cancel", "cancelled", NULL, NULL)
    /\ UNCHANGED <<fnVars, jobVars, dbVars, callVars, config, clock, ticks, teachers, rate_limit_store, outOk>>

\* /start of a user whose Telegram profile (update.effective_user) reads first_name
start_command(u, first_name) ==
    /\ teachers' = create_or_update(teachers, u, first_name, config.DEFAULT_LANGUAGE, Now)
    /\ Reply(u, "start", "welcome", NULL, NULL)
    /\ UNCHANGED <<fnVars, jobVars, dbVars, callVars, config, clock, ticks, user_data, rate_limit_store, outOk>>

\* Time passes between updates.  The clock is read at these instants, given
\* as <<date, hour, minute, second>> with date 3 a Thursday: the process
\* starts at the first and the clock moves on to any later one.
Timeline ==
    << <<3, 8, 0, 0>>, <<3, 8, 0, 1>>, <<3, 8, 0, 2>>, <<3, 8, 46, 0>>,
       <<3, 16, 30, 0>>, <<4, 8, 16, 0>>, <<4, 16, 30, 0>>, <<5, 9, 0, 0>>,
       <<5, 9, 0, 5>>, <<7, 8, 15, 0>>, <<7, 8, 15, 1>>, <<7, 17, 0, 0>> >>

Instant(i) ==
    LET x == Timeline[i + 1]
    IN x[1] * DaySeconds + x[2] * 3600 + x[3] * 60 + x[4]

Tick(i) ==
    /\ ticks < i
    /\ ticks' = i
    /\ clock' = Instant(i)
    /\ UNCHANGED <<fnVars, jobVars, dbVars, callVars, config, teachers, user_data, rate_limit_store, last, outOk>>

Init ==
    /\ FreshStart
    /\ NothingApplied
    /\ config = DefaultConfig
    /\ clock = Instant(0)

Next ==
    \/ \E u \in Chatters : start_command(u, KnownAs(u))
    \/ \E u \in Chatters : checkin_command(u)
    \/ \E u \in Chatters : checkout_command(u)
    \/ \E u \in Chatters, loc \in Locations : handle_location(u, loc)
    \/ \E u \in Chatters : cancel_command(u)
    \/ \E i \in 1..MaxTicks : Tick(i)

Spec == Init /\ [][Next]_vars

\* ------------------------------------------- a check-in that loses the race
\* models.py:148 "duplicate check-ins from rapid clicking": while the user is
\* awaiting a check-in location, an Attendance.check_in of the same user and
\* date is committed on another connection before this handler's own call.
check_in_elsewhere(u) ==
    /\ user_data[u].awaiting_checkin_location = "true"
    /\ LET r == Attendance_check_in(attendance, nextId, u, config.SCHOOL_LATITUDE,
                                    config.SCHOOL_LONGITUDE, Now,
                                    is_late_checkin(Now)[2], get_checkin_status(Now))
       IN /\ r.ok
          /\ attendance' = r.att
          /\ nextId' = r.nextId
    /\ UNCHANGED <<fnVars, jobVars, callVars, config, chatVars>>

RaceNext ==
    \/ Next
    \/ \E u \in Chatters : check_in_elsewhere(u)

SpecRace == Init /\ [][RaceNext]_vars

\* ------------------------------------------- an internal step that raises
\* both replies of a request that was answered twice
RepliedTwice(u, upd, outcome) ==
    last' = [user |-> u, update |-> upd, outcome |-> outcome, replies |-> 2,
             time |-> NULL, hours |-> NULL]

\* handle_location when a step of process_checkin or process_checkout
\* raises before the store is called (attendance.py:333-338 and 482-487
\* re-raise a failure of Config.now(), 508-513 one of parsing the stored
\* check-in time): the outer handler of process_checkin / process_checkout
\* replies with the failure message and re-raises (447-460, 580-593), and
\* handle_location catches that, clears the flag and replies with the same
\* message again (255-262, 270-277).
handle_location_raised(u, loc) ==
    /\ validate_coordinates(loc.latitude, loc.longitude)
    /\ WithinSchoolRadius(loc.latitude, loc.longitude).raised = "none"
    /\ WithinSchoolRadius(loc.latitude, loc.longitude).value[1][1]
    /\ IF user_data[u].awaiting_checkin_location = "true"
       THEN /\ RepliedTwice(u, "location", "checkin_failed")
            /\ user_data' = [user_data EXCEPT ![u].awaiting_checkin_location = "false"]
       ELSE /\ user_data[u].awaiting_checkout_location = "true"
            /\ RepliedTwice(u, "location", "checkout_failed")
            /\ user_data' = [user_data EXCEPT ![u].awaiting_checkout_location = "false"]
    /\ UNCHANGED <<attendance, nextId, outOk>>
    /\ UNCHANGED <<fnVars, jobVars, callVars, config, clock, ticks, teachers, rate_limit_store>>

FaultNext ==
    \/ Next
    \/ \E u \in Chatters, loc \in Locations : handle_location_raised(u, loc)

SpecFault == Init /\ [][FaultNext]_vars

\* ------------------------------------------- the classifier on its own
\* WorkSchedule.is_late_checkin and get_checkin_status applied to one
\* instant under one schedule.
ScheduleStarts == {<<8, 0>>, <<8, 50>>, <<23, 50>>}
GracePeriods == {0, GRACE_PERIOD_MINUTES, 45}
CheckInInstants ==
    {d * DaySeconds + h * 3600 + m * 60 + sec :
        d \in Dates, h \in {0, 8, 9, 23}, m \in {0, 4, 5, 15, 16, 35, 45, 46, 50},
        sec \in {0, 1, 59}}

LateInit ==
    /\ FreshStart
    /\ clock = 0
    /\ config \in {[DefaultConfig EXCEPT !.WORK_START_TIME = st, !.GRACE_PERIOD_MINUTES = g] :
                      st \in ScheduleStarts, g \in GracePeriods}
    /\ fnIn \in CheckInInstants
    /\ fnOut = NULL

ClassifyCheckIn ==
    /\ fnOut = NULL
    /\ fnOut' = Val([is_late_checkin |-> is_late_checkin(fnIn),
                     get_checkin_status |-> get_checkin_status(fnIn)])
    /\ UNCHANGED <<dbVars, callVars, config, chatVars, jobVars, fnIn>>

LateNext == ClassifyCheckIn

SpecLate == LateInit /\ [][LateNext]_vars

\* ------------------------------------------- the schedule functions on their own
minutes_to_time_NoWrap(total_minutes) == <<total_minutes \div 60, total_minutes % 60>>

\* minutes_to_time inside Config.get_notification_times: <<hour, minute>>
minutes_to_time(total_minutes) ==
    LET wrapped == total_minutes % (24 * 60)
    IN <<wrapped \div 60, wrapped % 60>>

\* start_time.hour * 60 + start_time.minute
MinutesOfTime(hm) == hm[1] * 60 + hm[2]

\* Config.get_notification_times
get_notification_times ==
    LET start_minutes == MinutesOfTime(config.WORK_START_TIME)
        end_minutes == MinutesOfTime(config.WORK_END_TIME)
    IN [morning_reminder |->
            minutes_to_time(start_minutes - config.MORNING_REMINDER_MINUTES_BEFORE),
        late_warning |->
            minutes_to_time(start_minutes + config.LATE_WARNING_MINUTES_AFTER),
        checkout_reminder |->
            minutes_to_time(end_minutes - config.CHECKOUT_REMINDER_MINUTES_BEFORE),
        forgotten_checkout |->
            minutes_to_time(end_minutes + config.FORGOTTEN_CHECKOUT_MINUTES_AFTER)]

\* Config.is_working_day(day_number)
Config_is_working_day(day_number) == day_number \in config.WORK_DAYS

is_working_day_MondayToFriday(check_date) == Weekday(check_date) < 5

\* WorkSchedule.is_working_day(check_date)
is_working_day(check_date) == Config_is_working_day(Weekday(check_date) + 1)

should_send_reminder_ExactMinute(current_time, reminder_type) ==
    IF ~is_working_day(DateOf(current_time)) THEN FALSE
    ELSE IF reminder_type \notin DOMAIN get_notification_times THEN FALSE
    ELSE (current_time % DaySeconds) \div 60
            = MinutesOfTime(get_notification_times[reminder_type])

\* WorkSchedule.should_send_reminder
should_send_reminder(current_time, reminder_type) ==
    IF ~is_working_day(DateOf(current_time)) THEN FALSE
    ELSE IF reminder_type \notin DOMAIN get_notification_times THEN FALSE
    ELSE LET target_time == get_notification_times[reminder_type]
             current_minutes == (current_time % DaySeconds) \div 60
             target_minutes == MinutesOfTime(target_time)
         IN Abs(current_minutes - target_minutes) <= 1

is_within_work_hours_BeforeEnd(check_time) ==
    /\ is_working_day(DateOf(check_time))
    /\ SecondsOfTime(config.WORK_START_TIME) <= check_time % DaySeconds
    /\ check_time % DaySeconds < SecondsOfTime(config.WORK_END_TIME)

\* WorkSchedule.is_within_work_hours
is_within_work_hours(check_time) ==
    /\ is_working_day(DateOf(check_time))
    /\ SecondsOfTime(config.WORK_START_TIME) <= check_time % DaySeconds
    /\ check_time % DaySeconds <= SecondsOfTime(config.WORK_END_TIME)

\* the keys of get_notification_times, and the name the docstring of
\* should_send_reminder gives for the first of them
ReminderKinds == {"morning_reminder", "late_warning", "checkout_reminder", "forgotten_checkout"}
ReminderTypes == ReminderKinds \cup {"morning"}

\* one week of dates, Monday to Sunday
WeekDates == 0..6

ClockTimes ==
    {h * 3600 + m * 60 + sec :
        h \in {0, 7, 8, 16, 17, 23},
        m \in {0, 1, 2, 14, 15, 16, 29, 30, 31, 39, 40, 41, 44, 45, 46, 59},
        sec \in {0, 59}}

\* <<morning before, late after, checkout before, forgotten after>>
NotificationOffsets == {<<15, 15, 15, 30>>, <<30, 0, 60, 70>>, <<1500, 1445, 0, 2880>>}

WithSchedule(st, en, off, days) ==
    [DefaultConfig EXCEPT !.WORK_START_TIME = st, !.WORK_END_TIME = en,
                          !.MORNING_REMINDER_MINUTES_BEFORE = off[1],
                          !.LATE_WARNING_MINUTES_AFTER = off[2],
                          !.CHECKOUT_REMINDER_MINUTES_BEFORE = off[3],
                          !.FORGOTTEN_CHECKOUT_MINUTES_AFTER = off[4],
                          !.WORK_DAYS = days]

\* Either the work days range over every subset of 1..7 under the default
\* hours, or the hours and offsets vary under two work-day sets.
ScheduleInit ==
    /\ FreshStart
    /\ clock = 0
    /\ fnOut = NULL
    /\ \/ /\ config \in {WithSchedule(<<8, 0>>, <<17, 0>>, <<15, 15, 15, 30>>, days) :
                            days \in SUBSET (1..7)}
          /\ fnIn \in {d * DaySeconds + tod : d \in WeekDates, tod \in {0, 12 * 3600}}
       \/ /\ config \in {WithSchedule(st, en, off, days) :
                            st \in {<<0, 10>>, <<8, 0>>, <<23, 50>>},
                            en \in {<<17, 0>>, <<23, 59>>},
                            off \in NotificationOffsets,
                            days \in {{1, 2, 3, 4, 5}, {1, 3, 7}}}
          /\ fnIn \in {d * DaySeconds + tod : d \in WeekDates, tod \in ClockTimes}

ApplySchedule ==
    /\ fnOut = NULL
    /\ fnOut' = Val([get_notification_times |-> get_notification_times,
                     should_send_reminder |->
                         [k \in ReminderTypes |-> should_send_reminder(fnIn, k)],
                     is_working_day |-> is_working_day(DateOf(fnIn)),
                     is_within_work_hours |-> is_within_work_hours(fnIn)])
    /\ UNCHANGED <<dbVars, callVars, config, chatVars, jobVars, fnIn>>

ScheduleNext == ApplySchedule

SpecSchedule == ScheduleInit /\ [][ScheduleNext]_vars

\* ------------------------------------------- the geofence functions on their own
\* <<latitude, longitude>> in 1/10000 degree: the school, points north,
\* east and north-east of it, and points off the globe
GeoPoints ==
    {<<412995, 692401>>, <<412997, 692401>>, <<413000, 692401>>, <<413005, 692401>>,
     <<412995, 692404>>, <<412998, 692405>>,
     <<910000, 692401>>, <<-900001, 692401>>, <<412995, 1810000>>}

\* radii in tenths of a metre: -1 m, 0, 0.5 m, 50 m, 50.9 m, 55 m, 111 m
RadiusValues == {-10, 0, 5, 500, 509, 550, 1110}

GeoInit ==
    /\ FreshStart
    /\ clock = 0
    /\ config = DefaultConfig
    /\ fnIn \in [user : GeoPoints, school : GeoPoints, radius_meters : RadiusValues]
    /\ fnOut = NULL

ApplyGeo ==
    /\ fnOut = NULL
    /\ fnOut' = Val([calculate_distance |->
                         calculate_distance(fnIn.user[1], fnIn.user[2],
                                            fnIn.school[1], fnIn.school[2]),
                     reversed |->
                         calculate_distance(fnIn.school[1], fnIn.school[2],
                                            fnIn.user[1], fnIn.user[2]),
                     same |->
                         calculate_distance(fnIn.user[1], fnIn.user[2],
                                            fnIn.user[1], fnIn.user[2]),
                     is_within_radius |->
                         is_within_radius(fnIn.user[1], fnIn.user[2],
                                          fnIn.school[1], fnIn.school[2],
                                          fnIn.radius_meters)])
    /\ UNCHANGED <<dbVars, callVars, config, chatVars, jobVars, fnIn>>

GeoNext == ApplyGeo

SpecGeo == GeoInit /\ [][GeoNext]_vars

\* ------------------------------------------------------- the reminder jobs
\* send_morning_reminder, send_late_warning, send_checkout_reminder and
\* send_forgotten_checkout, run by the JobQueue.  A run looks at the active
\* teachers one after the other; each look is one step.
Staff == 1..MaxTeachers

JobKinds == {"morning_reminder", "late_warning", "checkout_reminder", "forgotten_checkout"}

\* Teacher.get_all_active: SELECT * FROM teachers WHERE is_active = 1
get_all_active == {t \in teachers : t.is_active = 1}

\* datetime.replace(minute=m): ValueError unless 0 <= m <= 59
replace_minute(m) == IF 0 <= m /\ m <= 59 THEN Returned(m) ELSE Raised("ValueError")

\* send_late_warning: deadline.replace(minute=deadline.minute + grace_period)
grace_deadline_str == replace_minute(config.WORK_START_TIME[2] + config.GRACE_PERIOD_MINUTES)

should_skip_EnabledOnly(kind, teacher) == teacher.notification_enabled = 0

\* the two or three tests at the head of the loop body that end in continue
should_skip(kind, teacher) ==
    LET status == get_today_status(teacher.user_id)
    IN \/ teacher.notification_enabled = 0
       \/ IF kind \in {"morning_reminder", "late_warning"}
          THEN status # {}
          ELSE \/ status = {}
               \/ \E r \in status : r.check_out_time # NULL

\* NotificationLog.log_notification
log_notification(user_id, notification_type, was_delivered) ==
    notifications_log' = notifications_log \cup
        {[user_id |-> user_id, notification_type |-> notification_type,
          was_delivered |-> IF was_delivered THEN 1 ELSE 0]}

\* the job is called: working-day test, the active teachers, and for the
\* late warning the deadline strings computed before the loop
run_job(kind) ==
    /\ job.pc = "idle"
    /\ IF ~is_working_day(Today) \/ get_all_active = {}
       THEN job' = [job EXCEPT !.kind = kind, !.pc = "done"]
       ELSE IF kind = "late_warning" /\ grace_deadline_str.raised # "none"
       THEN job' = [job EXCEPT !.kind = kind, !.pc = "done", !.aborted = TRUE]
       ELSE job' = [job EXCEPT !.kind = kind, !.pc = "loop", !.pending = get_all_active]
    /\ UNCHANGED <<dbVars, callVars, config, chatVars, fnVars, notifications_log>>

\* a teacher the loop passes over
skip_teacher(teacher) ==
    /\ job.pc = "loop"
    /\ teacher \in job.pending
    /\ should_skip(job.kind, teacher)
    /\ job' = [job EXCEPT !.pending = @ \ {teacher}]
    /\ UNCHANGED <<dbVars, callVars, config, chatVars, fnVars, notifications_log>>

\* context.bot.send_message returned: the notification is logged as delivered
send_delivered(teacher) ==
    /\ job.pc = "loop"
    /\ teacher \in job.pending
    /\ ~should_skip(job.kind, teacher)
    /\ log_notification(teacher.user_id, job.kind, TRUE)
    /\ job' = [job EXCEPT !.pending = @ \ {teacher},
                          !.sends = Append(@, [user_id |-> teacher.user_id,
                                               was_delivered |-> TRUE])]
    /\ UNCHANGED <<dbVars, callVars, config, chatVars, fnVars>>

send_failed_Propagates(teacher) ==
    /\ job.pc = "loop"
    /\ teacher \in job.pending
    /\ ~should_skip(job.kind, teacher)
    /\ job' = [job EXCEPT !.pc = "done", !.aborted = TRUE,
                          !.sends = Append(@, [user_id |-> teacher.user_id,
                                               was_delivered |-> FALSE])]
    /\ UNCHANGED <<dbVars, callVars, config, chatVars, fnVars, notifications_log>>

\* context.bot.send_message raised: caught inside the loop body, logged as
\* undelivered, and the loop goes on
send_failed(teacher) ==
    /\ job.pc = "loop"
    /\ teacher \in job.pending
    /\ ~should_skip(job.kind, teacher)
    /\ log_notification(teacher.user_id, job.kind, FALSE)
    /\ job' = [job EXCEPT !.pending = @ \ {teacher},
                          !.sends = Append(@, [user_id |-> teacher.user_id,
                                               was_delivered |-> FALSE])]
    /\ UNCHANGED <<dbVars, callVars, config, chatVars, fnVars>>

\* the loop has run out of teachers
job_completed ==
    /\ job.pc = "loop"
    /\ job.pending = {}
    /\ job' = [job EXCEPT !.pc = "done"]
    /\ UNCHANGED <<dbVars, callVars, config, chatVars, fnVars, notifications_log>>

\* what a teacher's day looks like when the job runs
DayStates == {"none", "open", "closed"}

\* the rows of today for teachers whose day is as given: checked in at
\* 07:50, and checked out at 16:40 when closed
RowsOfDay(day, d) ==
    LET tin == d * DaySeconds + 7 * 3600 + 50 * 60
        tout == d * DaySeconds + 16 * 3600 + 40 * 60
        row(u) == NewRow(u, u, tin, config.SCHOOL_LATITUDE, config.SCHOOL_LONGITUDE,
                         0, "on_time")
    IN UNION {IF day[u] = "none" THEN {}
              ELSE IF day[u] = "open" THEN {row(u)}
              ELSE UpdateCheckOut({row(u)}, u, tout, config.SCHOOL_LATITUDE,
                                  config.SCHOOL_LONGITUDE, TotalHours(tin, tout)).att
              : u \in Staff}

\* a Thursday and a Saturday, at the time of the forgotten-checkout job
JobDates == {3, 5}

ReminderInit ==
    /\ NothingApplied
    /\ call = [c \in Calls |-> IdleCall]
    /\ dbLock = 0
    /\ txn = {}
    /\ ticks = 0
    /\ user_data = [u \in Chatters |-> [awaiting_checkin_location |-> "absent",
                                        awaiting_checkout_location |-> "absent"]]
    /\ rate_limit_store = [u \in Chatters |-> NULL]
    /\ last = NoUpdate
    /\ outOk = {}
    /\ job = IdleJob
    /\ notifications_log = {}
    /\ config \in {DefaultConfig, [DefaultConfig EXCEPT !.WORK_START_TIME = <<8, 50>>]}
    /\ \E d \in JobDates : clock = d * DaySeconds + 17 * 3600 + 30 * 60
    /\ \E active \in [Staff -> {0, 1}], enabled \in [Staff -> {0, 1}] :
          teachers = {[user_id |-> u, first_name |-> "Ali",
                       language |-> config.DEFAULT_LANGUAGE,
                       is_active |-> active[u], notification_enabled |-> enabled[u],
                       updated_at |-> 0]
                      : u \in Staff}
    /\ \E day \in [Staff -> DayStates] : attendance = RowsOfDay(day, DateOf(clock))
    /\ nextId = MaxTeachers + 1

ReminderNext ==
    \/ \E kind \in JobKinds : run_job(kind)
    \/ \E teacher \in teachers : skip_teacher(teacher)
    \/ \E teacher \in teachers : send_delivered(teacher)
    \/ \E teacher \in teachers : send_failed(teacher)
    \/ job_completed

SpecReminder == ReminderInit /\ [][ReminderNext]_vars

\* ---------------------------------------------------- the teachers table
\* /start, the language buttons and the notification toggle are the writers
\* of the teachers table.  Two users are followed, each with a profile that
\* may read differently from one /start to the next.
Registrants == {1, 2}

\* language_callback: callback data "lang_<code>" of one of the three buttons
language_callback(u, language) ==
    /\ teachers' = set_language(teachers, u, language, Now)
    /\ Reply(u, "language", "language_changed", NULL, NULL)
    /\ UNCHANGED <<fnVars, jobVars, dbVars, callVars, config, clock, ticks, user_data, rate_limit_store, outOk>>

\* notification_toggle_callback: new_state = not current_state.  The button
\* of /notifications carries "notif_toggle_<id>"; bot.py registers no
\* CallbackQueryHandler for it, the step is the handler as preferences.py
\* defines it.
notification_toggle_callback(u) ==
    /\ IF get_by_id(u) = {}
       THEN /\ Reply(u, "notif_toggle", "not_registered", NULL, NULL)
            /\ UNCHANGED teachers
       ELSE LET teacher == CHOOSE r \in get_by_id(u) : TRUE
            IN /\ teachers' = set_notification_preference(teachers, u,
                                   teacher.notification_enabled = 0, Now)
               /\ Reply(u, "notif_toggle", "notification_toggled", NULL, NULL)
    /\ UNCHANGED <<fnVars, jobVars, dbVars, callVars, config, clock, ticks, user_data, rate_limit_store, outOk>>

TeacherNext ==
    \/ \E u \in Registrants, first_name \in Profiles : start_command(u, first_name)
    \/ \E u \in Registrants, language \in SUPPORTED_LANGUAGES : language_callback(u, language)
    \/ \E u \in Registrants : notification_toggle_callback(u)
    \/ \E i \in 1..MaxTicks : Tick(i)

SpecTeacher == Init /\ [][TeacherNext]_vars

\* ------------------------------------------------ other work-day settings
\* WORK_DAYS as the environment may give it: Monday to Friday (the default),
\* Monday to Saturday, and Monday to Thursday.
WorkWeeks == {{1, 2, 3, 4, 5}, {1, 2, 3, 4, 5, 6}, {1, 2, 3, 4}}

WorkDaysInit ==
    /\ FreshStart
    /\ NothingApplied
    /\ \E days \in WorkWeeks : config = [DefaultConfig EXCEPT !.WORK_DAYS = days]
    /\ clock = Instant(0)

SpecWorkDays == WorkDaysInit /\ [][Next]_vars

\* -------------------------------------------------------------- two users
\* Two users talk to the bot in turn.  user_data and _rate_limit_store hold
\* an entry for each; the clock is read on Thursday at 08:00:00, 08:00:01
\* and 16:30:00.
Pair == {1, 2}

PairInstants == {1, 4}

PairInit ==
    /\ attendance = {}
    /\ nextId = 1
    /\ call = [c \in Calls |-> IdleCall]
    /\ dbLock = 0
    /\ txn = {}
    /\ ticks = 0
    /\ teachers = {}
    /\ user_data = [u \in Pair |-> [awaiting_checkin_location |-> "absent",
                                    awaiting_checkout_location |-> "absent"]]
    /\ rate_limit_store = [u \in Pair |-> NULL]
    /\ last = NoUpdate
    /\ outOk = {}
    /\ job = IdleJob
    /\ notifications_log = {}
    /\ NothingApplied
    /\ config = DefaultConfig
    /\ clock = Instant(0)

PairNext ==
    \/ \E u \in Pair : start_command(u, KnownAs(u))
    \/ \E u \in Pair : checkin_command(u)
    \/ \E u \in Pair : checkout_command(u)
    \/ \E u \in Pair, loc \in Locations : handle_location(u, loc)
    \/ \E u \in Pair : cancel_command(u)
    \/ \E i \in PairInstants : Tick(i)

SpecPair == PairInit /\ [][PairNext]_vars

\* ------------------------------------------------------------------ claims
StartedCalls == {c \in Calls : call[c].pc # "idle"}
CheckInCalls(u, d) ==
    {c \in Calls : call[c].op = "check_in" /\ call[c].user = u /\ call[c].date = d}

\* C1: once overlapping check_in calls for one (user, date) have all
\* returned, the table holds exactly one row for (user, date) and exactly one
\* of the calls returned True.  Whatever else runs, there is never a second
\* row for a (user, date) and never a second True.
C1_ExactlyOneCheckIn ==
    \A u \in Users, d \in Dates :
        LET cs == CheckInCalls(u, d)
            won == {c \in cs : call[c].pc = "done" /\ call[c].result = "True"}
        IN /\ Cardinality(RowsFor(attendance, u, d)) <= 1
           /\ Cardinality(won) <= 1
           /\ (cs # {} /\ StartedCalls = cs /\ \A c \in cs : call[c].pc = "done")
                => (Cardinality(RowsFor(attendance, u, d)) = 1 /\ Cardinality(won) = 1)

\* three check_in calls for one (user, date) have overlapped and returned
C1_Witness ==
    \E u \in Users, d \in Dates :
        /\ CheckInCalls(u, d) = Calls
        /\ \A c \in Calls : call[c].pc = "done"
        /\ \E c \in Calls : call[c].result = "False" /\ ~call[c].dup

CheckInFields(r) ==
    <<r.check_in_time, r.check_in_latitude, r.check_in_longitude,
      r.late_minutes, r.checkin_status>>

\* C2: a step of a check_in call that is rejected leaves the table as it
\* was, and the check-in fields of a (user, date) row never change once
\* written (the status moves only by check-out).
C2_DuplicateLeavesRecord ==
    [][/\ \A c \in Calls :
            (call'[c] # call[c] /\ call'[c].op = "check_in" /\ call'[c].result = "False")
                => attendance' = attendance
       /\ \A r \in attendance : \A q \in attendance' :
            (q.user_id = r.user_id /\ q.date = r.date)
                => (CheckInFields(q) = CheckInFields(r) /\ q.id = r.id)]_vars

\* a check_in call met the row of an earlier check-in and returned False
C2_Witness ==
    \E c \in Calls : /\ call[c].op = "check_in" /\ call[c].pc = "done"
                     /\ call[c].dup /\ call[c].result = "False"

\* C3: a check_out entered after a check_out of the same (user, date)
\* returned True returns False.
C3_SecondCheckOutRejected ==
    \A c \in Calls :
        (call[c].op = "check_out" /\ call[c].pc = "done" /\ call[c].afterOut)
            => call[c].result = "False"

\* C6: a check_out that finds no row dated as its timestamp returns False,
\* and no step of it changes a row.
C6_NoRecordForDate ==
    [][\A c \in Calls :
          (call'[c] # call[c] /\ call'[c].op = "check_out" /\ call'[c].noRow)
              => (attendance' = attendance /\ call'[c].result = "False")]_vars

\* a check_out for a date without a record returned False while the user
\* had a record of another date
C6_Witness ==
    \E c \in Calls : /\ call[c].op = "check_out" /\ call[c].pc = "done" /\ call[c].noRow
                     /\ call[c].result = "False"
                     /\ \E r \in attendance : r.user_id = call[c].user /\ r.date # call[c].date

\* dates the clock of the handlers passes through
ChatDates == {Timeline[i][1] : i \in 1..(MaxTicks + 1)}

CheckOutFields(r) ==
    <<r.check_out_time, r.check_out_latitude, r.check_out_longitude, r.total_hours>>

\* C4: whatever commands and locations a user sends, at most one event of a
\* date is answered with a check-out success, and the check-out fields of a
\* closed record never change.
C4_CheckOutOnce ==
    [][/\ \A x \in outOk' : x[3] = 1
       /\ \A r \in attendance :
            r.check_out_time # NULL
                => \E q \in attendance' :
                     q.id = r.id /\ CheckOutFields(q) = CheckOutFields(r)]_vars

\* a /checkout was sent for a date whose record is closed, after a location
\* was consumed with the record closed
C4_Witness ==
    /\ last.update = "checkout" /\ last.outcome = "already_checked_out"
    /\ \E r \in get_today_status(last.user) : r.check_out_time # NULL
    /\ user_data[last.user].awaiting_checkout_location = "false"

StateOf(att, u, d) ==
    IF RowsFor(att, u, d) = {} THEN "NONE"
    ELSE IF \E r \in RowsFor(att, u, d) : r.check_out_time # NULL THEN "CHECKED_OUT"
    ELSE "CHECKED_IN"

\* C5: no step deletes a record, and the state of a (user, date) is left
\* only from NONE to CHECKED_IN and from CHECKED_IN to CHECKED_OUT.
C5_StateMovesForward ==
    [][/\ \A r \in attendance : \E q \in attendance' :
            q.id = r.id /\ q.user_id = r.user_id /\ q.date = r.date
       /\ \A u \in Chatters, d \in ChatDates :
            \/ StateOf(attendance', u, d) = StateOf(attendance, u, d)
            \/ StateOf(attendance, u, d) = "NONE" /\ StateOf(attendance', u, d) = "CHECKED_IN"
            \/ StateOf(attendance, u, d) = "CHECKED_IN"
                  /\ StateOf(attendance', u, d) = "CHECKED_OUT"]_vars

\* a closed record of an earlier date, an open one of today, and /start,
\* /checkin and cancel handled since
C5_Witness ==
    /\ \E u \in Chatters, d \in ChatDates :
          /\ StateOf(attendance, u, d) = "CHECKED_OUT"
          /\ StateOf(attendance, u, Today) = "CHECKED_IN"
          /\ d < Today
    /\ last.update = "cancel"

\* C7: a record's check-out instant is never before its check-in instant.
C7_CheckOutAfterCheckIn ==
    \A r \in attendance :
        r.check_out_time # NULL => r.check_out_time[1] >= r.check_in_time[1]

\* a record closed hours after it was opened
C7_Witness ==
    \E r \in attendance :
        r.check_out_time # NULL /\ r.check_out_time[1] > r.check_in_time[1]

\* C8: total_hours, check_out_time and status 'checked_out' are set
\* together, and total_hours is the time from check-in to check-out.
C8_TotalHoursWithCheckOut ==
    \A r \in attendance :
        /\ (r.total_hours # NULL) <=> (r.check_out_time # NULL)
        /\ (r.check_out_time # NULL) <=> (r.status = "checked_out")
        /\ r.status \in {"checked_in", "checked_out"}
        /\ r.total_hours # NULL
              => r.total_hours[1] = TotalHours(r.check_in_time[1], r.check_out_time[1])

\* a record closed by a check_out that followed an earlier check_out of
\* the same record
C8_Witness ==
    \E c \in Calls :
        /\ call[c].op = "check_out" /\ call[c].pc = "done"
        /\ call[c].afterOut /\ call[c].result = "True"
        /\ \E r \in attendance :
              /\ r.status = "checked_out"
              /\ r.check_out_time = Val(call[c].time)
              /\ r.total_hours # NULL

\* C9: every record carries its check-in instant and coordinates, and a
\* record appears only by the commit of a check_in call.
C9_RecordHasCheckIn ==
    [][\A q \in attendance' :
          /\ q.check_in_time # NULL
          /\ q.check_in_latitude # NULL
          /\ q.check_in_longitude # NULL
          /\ (\A r \in attendance : r.id # q.id)
                => (dbLock # 0 /\ call[dbLock].op = "check_in"
                    /\ q.check_out_time = NULL)]_vars

\* check_out calls have returned, one for a date without a record, and
\* every row there is was made by a check_in
C9_Witness ==
    /\ attendance # {}
    /\ \E c \in Calls : call[c].op = "check_out" /\ call[c].pc = "done" /\ call[c].noRow
    /\ \E c \in Calls : call[c].op = "check_out" /\ call[c].pc = "done"
                        /\ call[c].result = "True"

\* C10: is_late_checkin(t) is (False, 0) when t is at or before the work
\* start of t's date plus the grace period, and otherwise (True, m) with m
\* the whole minutes from that deadline to t.
C10_LateFromGraceDeadline ==
    fnOut # NULL =>
        LET deadline == (fnIn \div DaySeconds) * DaySeconds
                          + config.WORK_START_TIME[1] * 3600
                          + config.WORK_START_TIME[2] * 60
                          + config.GRACE_PERIOD_MINUTES * 60
            m == CHOOSE k \in 0..(2 * 24 * 60) :
                    k * 60 <= fnIn - deadline /\ fnIn - deadline < (k + 1) * 60
        IN IF fnIn <= deadline
           THEN fnOut[1].is_late_checkin = <<FALSE, 0>>
           ELSE fnOut[1].is_late_checkin = <<TRUE, m>>

\* a check-in one second past a deadline that follows a grace period, and
\* so late by no whole minute
C10_Witness ==
    /\ fnOut # NULL
    /\ config.GRACE_PERIOD_MINUTES > 0
    /\ fnIn = GraceDeadline(fnIn) + 1
    /\ fnOut[1].is_late_checkin = <<TRUE, 0>>

\* the instant hh:mm:ss of the date of t
AtTimeOfDay(t, hh, mm, ss) == DateOf(t) * DaySeconds + hh * 3600 + mm * 60 + ss

StartsAtEightWithGrace ==
    /\ config.WORK_START_TIME = <<8, 0>>
    /\ config.GRACE_PERIOD_MINUTES = GRACE_PERIOD_MINUTES

\* C11 as stated: with start 08:00 and 15 minutes of grace a check-in at
\* 08:15:00 is not late and one at 08:15:01 is late by 1 minute.
C11_LateByOneMinuteAfterOneSecond ==
    (fnOut # NULL /\ StartsAtEightWithGrace) =>
        /\ fnIn = AtTimeOfDay(fnIn, 8, 15, 0) => fnOut[1].is_late_checkin = <<FALSE, 0>>
        /\ fnIn = AtTimeOfDay(fnIn, 8, 15, 1) => fnOut[1].is_late_checkin = <<TRUE, 1>>

\* C11 amended: with start 08:00 and 15 minutes of grace a check-in at
\* 08:15:00 is not late, one at 08:15:01 or 08:15:59 is late by 0 whole
\* minutes, and one at 08:16:00 is late by 1 minute.
C11_LateByNoWholeMinute ==
    (fnOut # NULL /\ StartsAtEightWithGrace) =>
        /\ fnIn = AtTimeOfDay(fnIn, 8, 15, 0) => fnOut[1].is_late_checkin = <<FALSE, 0>>
        /\ fnIn = AtTimeOfDay(fnIn, 8, 15, 1) => fnOut[1].is_late_checkin = <<TRUE, 0>>
        /\ fnIn = AtTimeOfDay(fnIn, 8, 15, 59) => fnOut[1].is_late_checkin = <<TRUE, 0>>
        /\ fnIn = AtTimeOfDay(fnIn, 8, 16, 0) => fnOut[1].is_late_checkin = <<TRUE, 1>>

\* the check-in of 08:15:01 classified under the 08:00 / 15 minute schedule
C11_Witness ==
    /\ fnOut # NULL
    /\ StartsAtEightWithGrace
    /\ fnIn = AtTimeOfDay(fnIn, 8, 15, 1)
    /\ fnOut[1].is_late_checkin[1]

\* C12 as stated: the status is 'on_time' iff the check-in is not late,
\* 'late' iff 0 < minutesLate <= 30 and 'very_late' iff minutesLate > 30.
C12_LateIffPositiveMinutes ==
    fnOut # NULL =>
        LET isLate == fnOut[1].is_late_checkin[1]
            minutesLate == fnOut[1].is_late_checkin[2]
            status == fnOut[1].get_checkin_status
        IN /\ (status = "on_time") <=> ~isLate
           /\ (status = "late") <=> (0 < minutesLate /\ minutesLate <= 30)
           /\ (status = "very_late") <=> (minutesLate > 30)

\* C12 amended: the status is 'on_time' iff the check-in is not late, 'late'
\* iff it is late with minutesLate <= 30 (0 included: the first minute past
\* the deadline) and 'very_late' iff minutesLate > 30.
C12_StatusByMinutesLate ==
    fnOut # NULL =>
        LET isLate == fnIn > (fnIn \div DaySeconds) * DaySeconds
                                + config.WORK_START_TIME[1] * 3600
                                + config.WORK_START_TIME[2] * 60
                                + config.GRACE_PERIOD_MINUTES * 60
            minutesLate == fnOut[1].is_late_checkin[2]
            status == fnOut[1].get_checkin_status
        IN /\ status \in {"on_time", "late", "very_late"}
           /\ (status = "on_time") <=> ~isLate
           /\ (status = "late") <=> (isLate /\ minutesLate <= 30)
           /\ (status = "very_late") <=> (minutesLate > 30)

\* a check-in 30 minutes and some seconds past the deadline, still 'late'
C12_Witness ==
    /\ fnOut # NULL
    /\ fnOut[1].is_late_checkin = <<TRUE, 30>>
    /\ fnIn > GraceDeadline(fnIn) + 30 * 60
    /\ fnOut[1].get_checkin_status = "late"

\* the clock time <<hour, minute>> that is x minutes from midnight, modulo a day
ClockOfMinutes(x) ==
    LET k == CHOOSE j \in -3..3 : 0 <= x + 1440 * j /\ x + 1440 * j < 1440
        m == x + 1440 * k
    IN <<m \div 60, m % 60>>

\* C13: the four notification times are start - morningBefore, start +
\* lateAfter, end - checkoutBefore and end + forgottenAfter, each taken
\* modulo 1440 minutes, and each a clock time of 00:00..23:59.
C13_NotificationTimesWrap ==
    fnOut # NULL =>
        LET times == fnOut[1].get_notification_times
            start == config.WORK_START_TIME[1] * 60 + config.WORK_START_TIME[2]
            end == config.WORK_END_TIME[1] * 60 + config.WORK_END_TIME[2]
        IN /\ times.morning_reminder
                 = ClockOfMinutes(start - config.MORNING_REMINDER_MINUTES_BEFORE)
           /\ times.late_warning
                 = ClockOfMinutes(start + config.LATE_WARNING_MINUTES_AFTER)
           /\ times.checkout_reminder
                 = ClockOfMinutes(end - config.CHECKOUT_REMINDER_MINUTES_BEFORE)
           /\ times.forgotten_checkout
                 = ClockOfMinutes(end + config.FORGOTTEN_CHECKOUT_MINUTES_AFTER)
           /\ \A k \in DOMAIN times : times[k][1] \in 0..23 /\ times[k][2] \in 0..59

\* start 00:10 with the morning reminder 30 minutes before: 23:40
C13_Witness ==
    /\ fnOut # NULL
    /\ config.WORK_START_TIME = <<0, 10>>
    /\ config.MORNING_REMINDER_MINUTES_BEFORE = 30
    /\ fnOut[1].get_notification_times.morning_reminder = <<23, 40>>

C15_WorkingDayInWorkDays ==
    fnOut # NULL =>
        LET d == fnIn \div DaySeconds
            iso == (d % 7) + 1
        IN /\ fnOut[1].is_working_day <=> (iso \in config.WORK_DAYS)
           /\ config.WORK_DAYS = {1, 2, 3, 4, 5} =>
                 /\ d = 5 => ~fnOut[1].is_working_day
                 /\ d = 6 => ~fnOut[1].is_working_day
                 /\ d = 0 => fnOut[1].is_working_day

\* a Sunday that is a work day while the Monday before it is not
C15_Witness ==
    /\ fnOut # NULL
    /\ fnIn \div DaySeconds = 6
    /\ 7 \in config.WORK_DAYS /\ 1 \notin config.WORK_DAYS
    /\ fnOut[1].is_working_day

\* C16: is_within_work_hours(t) is true iff t's date is a working day and
\* the time of day of t is from the work start to the work end, both
\* included.
C16_WithinWorkHoursInclusive ==
    fnOut # NULL =>
        LET tod == fnIn % DaySeconds
            workStart == config.WORK_START_TIME[1] * 3600 + config.WORK_START_TIME[2] * 60
            workEnd == config.WORK_END_TIME[1] * 3600 + config.WORK_END_TIME[2] * 60
        IN fnOut[1].is_within_work_hours
             <=> /\ (((fnIn \div DaySeconds) % 7) + 1) \in config.WORK_DAYS
                 /\ workStart <= tod /\ tod <= workEnd

\* the instant of the work end itself, on a working day
C16_Witness ==
    /\ fnOut # NULL
    /\ fnIn % DaySeconds = SecondsOfTime(config.WORK_END_TIME)
    /\ fnOut[1].is_within_work_hours

OnTheGlobe(p) ==
    /\ -900000 <= p[1] /\ p[1] <= 900000
    /\ -1800000 <= p[2] /\ p[2] <= 1800000

PositiveInteger(tenths) == tenths > 0 /\ tenths % 10 = 0

\* C17: is_within_radius returns (true, d) iff the distance d it computed
\* is at most the radius, d = radius included, and (false, d) otherwise;
\* d is compared as computed, fractions of a metre included.
C17_WithinIffDistanceAtMostRadius ==
    (fnOut # NULL /\ PositiveInteger(fnIn.radius_meters)
        /\ OnTheGlobe(fnIn.user) /\ OnTheGlobe(fnIn.school)) =>
        LET d == fnOut[1].calculate_distance.value[1]
        IN /\ fnOut[1].is_within_radius.raised = "none"
           /\ fnOut[1].is_within_radius.value[1] = <<d <= fnIn.radius_meters, d>>

\* a point exactly 111 m from the centre under a radius of 111 m
C17_Witness ==
    /\ fnOut # NULL
    /\ fnIn.radius_meters = 1110
    /\ fnOut[1].is_within_radius.raised = "none"
    /\ fnOut[1].is_within_radius.value[1] = <<TRUE, 1110>>

\* C18 as stated: is_within_radius fails whenever the radius is not a
\* positive integer, and calculate_distance and is_within_radius fail
\* whenever a latitude or a longitude is out of range.
C18_InvalidInputsFail ==
    fnOut # NULL =>
        /\ ~PositiveInteger(fnIn.radius_meters)
              => (fnOut[1].is_within_radius.raised # "none"
                  /\ fnOut[1].is_within_radius.value = NULL)
        /\ ~(OnTheGlobe(fnIn.user) /\ OnTheGlobe(fnIn.school))
              => (/\ fnOut[1].calculate_distance.raised # "none"
                  /\ fnOut[1].calculate_distance.value = NULL
                  /\ fnOut[1].is_within_radius.raised # "none"
                  /\ fnOut[1].is_within_radius.value = NULL)

CheckinHandled(u) ==
    /\ clock' = clock
    /\ last'.update = "checkin" /\ last'.user = u
    /\ last'.outcome \notin {"rate_limited", "weekend", "not_registered"}
    /\ rate_limit_store'[u] = Val(clock)
    /\ teachers' = teachers

\* C20: a /checkin of a user who has a record for today is answered
\* AlreadyCheckedIn with the stored check-in time when the record is open
\* and AlreadyCheckedOut when it is closed; the awaiting-check-in flag is
\* not set and no row changes.
C20_CheckinWithRecordRefused ==
    [][\A u \in Chatters :
          (CheckinHandled(u) /\ RowsFor(attendance, u, DateOf(clock)) # {}) =>
              /\ \A r \in RowsFor(attendance, u, DateOf(clock)) :
                    IF r.check_out_time = NULL
                    THEN last'.outcome = "already_checked_in"
                         /\ last'.time = r.check_in_time
                    ELSE last'.outcome = "already_checked_out"
              /\ user_data' = user_data
              /\ user_data'[u].awaiting_checkin_location # "true"
              /\ attendance' = attendance
              /\ nextId' = nextId]_vars

\* /checkin answered with the time of the open record of today
C20_Witness ==
    /\ last.update = "checkin" /\ last.outcome = "already_checked_in"
    /\ \E r \in get_today_status(last.user) :
          r.check_out_time = NULL /\ last.time = r.check_in_time

\* C21: when handle_location consumes a location as a check-in and the store
\* rejects it as a duplicate (a record of the user for today already exists),
\* the reply is the 'already checked in' outcome of the /checkin pre-check,
\* carrying the stored check-in time, and not a generic failure.
C21_DuplicateRepliesAlreadyCheckedIn ==
    [][\A u \in Chatters :
          (/\ user_data[u].awaiting_checkin_location = "true"
           /\ user_data'[u].awaiting_checkin_location = "false"
           /\ last'.update = "location"
           /\ get_today_status(u) # {})
          => /\ last'.outcome = "already_checked_in"
             /\ \E r \in get_today_status(u) : last'.time = r.check_in_time]_vars

\* a /checkout of user u that got past the rate limit, the weekday check and
\* the registration check is handled in this step
CheckoutHandled(u) ==
    /\ clock' = clock
    /\ last'.update = "checkout" /\ last'.user = u
    /\ last'.outcome \notin {"rate_limited", "weekend", "not_registered"}
    /\ rate_limit_store'[u] = Val(clock)
    /\ teachers' = teachers

\* C22: a /checkout of a user with no record for today is answered
\* NotCheckedIn and of a user whose record of today is closed
\* AlreadyCheckedOut, in both cases without touching the pending flags or
\* the attendance table; a step that sets the awaiting-check-out flag is a
\* /checkout of a user whose record of today is open.
C22_CheckoutWithoutOpenRecordRefused ==
    [][\A u \in Chatters :
          LET status == RowsFor(attendance, u, DateOf(clock))
              closed == \E r \in status : r.check_out_time # NULL
          IN /\ (CheckoutHandled(u) /\ (status = {} \/ closed)) =>
                    /\ last'.outcome = IF status = {} THEN "not_checked_in"
                                       ELSE "already_checked_out"
                    /\ user_data' = user_data
                    /\ attendance' = attendance
                    /\ nextId' = nextId
             /\ (/\ user_data[u].awaiting_checkout_location # "true"
                 /\ user_data'[u].awaiting_checkout_location = "true") =>
                    /\ CheckoutHandled(u)
                    /\ last'.outcome = "checkout_prompt"
                    /\ \E r \in status : r.check_out_time = NULL]_vars

\* /checkout refused after the record of today was closed, the flag not set
C22_Witness ==
    /\ last.update = "checkout" /\ last.outcome = "already_checked_out"
    /\ \E r \in get_today_status(last.user) : r.check_out_time # NULL
    /\ user_data[last.user].awaiting_checkout_location = "false"

\* the distance of a shared location from the school exceeds the radius
BeyondRadius(loc) ==
    LET d == calculate_distance(loc.latitude, loc.longitude,
                                config.SCHOOL_LATITUDE, config.SCHOOL_LONGITUDE)
    IN d.raised = "none" /\ d.value[1] > Tenths(config.RADIUS_METERS)

\* C23: a location with invalid coordinates is answered InvalidLocation and
\* one farther from the school than the radius TooFar; whichever pending
\* flag is set, that step creates and modifies no attendance record.
C23_RejectedLocationWritesNothing ==
    [][\A u \in Chatters, loc \in Locations :
          handle_location(u, loc) =>
             /\ ~validate_coordinates(loc.latitude, loc.longitude) =>
                    /\ last'.outcome = "invalid_location"
                    /\ attendance' = attendance /\ nextId' = nextId
             /\ (validate_coordinates(loc.latitude, loc.longitude) /\ BeyondRadius(loc)) =>
                    /\ last'.outcome = "too_far"
                    /\ attendance' = attendance /\ nextId' = nextId]_vars

\* a location too far away was refused while a check-out was awaited, and
\* the open record of today is as it was
C23_Witness ==
    /\ last.update = "location" /\ last.outcome = "too_far"
    /\ user_data[last.user].awaiting_checkout_location = "true"
    /\ \E r \in get_today_status(last.user) : r.check_out_time = NULL

\* C24: once handle_location has handled a location while a pending flag
\* was set, the flag it was handled under (awaiting check-in first, else
\* awaiting check-out) is no longer set, whatever the outcome.
C24_ConsumedLocationClearsFlag ==
    [][\A u \in Chatters :
          (last'.update = "location" /\ last'.user = u /\ last' # last) =>
             IF user_data[u].awaiting_checkin_location = "true"
             THEN user_data'[u].awaiting_checkin_location # "true"
             ELSE user_data[u].awaiting_checkout_location = "true"
                     => user_data'[u].awaiting_checkout_location # "true"]_vars

\* C25: cancel always succeeds: whatever the pending flags of the user were,
\* after it both are unset, the reply is the cancellation, and no attendance
\* or teacher record has changed.
C25_CancelClearsBothFlags ==
    [][\A u \in Chatters :
          /\ ENABLED cancel_command(u)
          /\ cancel_command(u) =>
                /\ user_data'[u].awaiting_checkin_location = "absent"
                /\ user_data'[u].awaiting_checkout_location = "absent"
                /\ last'.update = "cancel" /\ last'.outcome = "cancelled"
                /\ attendance' = attendance /\ nextId' = nextId
                /\ teachers' = teachers]_vars

\* a cancel was answered while today's record is open: both flags are unset
C25_Witness ==
    /\ last.update = "cancel" /\ last.outcome = "cancelled"
    /\ user_data[last.user].awaiting_checkin_location = "absent"
    /\ user_data[last.user].awaiting_checkout_location = "absent"
    /\ \E r \in get_today_status(last.user) : r.check_out_time = NULL

\* C26: every request, command or location, is answered with exactly one
\* reply, also when a store operation or an internal step fails.
C26_ExactlyOneReply ==
    last.update # "none" => last.replies = 1

\* an in-radius location of user u is handled in this step while the given
\* pending flag decides what it is taken for
LocationTakenAs(u, flag) ==
    /\ clock' = clock
    /\ last'.update = "location" /\ last'.user = u
    /\ last'.outcome \notin {"invalid_location", "location_validation_error", "too_far"}
    /\ user_data[u][flag] = "true"
    /\ user_data'[u][flag] = "false"

\* C27: for a registered user on a working day the requests that pass the
\* command guards are answered along the day's record: a location taken as
\* check-in with no record creates it and is answered CheckedIn with the
\* present time; a later /checkin is answered AlreadyCheckedIn with that
\* check-in time; a location taken as check-out closes the record and is
\* answered CheckedOut with that check-in time and the hours since; a later
\* /checkout is answered AlreadyCheckedOut.
C27_DayInOrder ==
    [][\A u \in Chatters :
          LET status == RowsFor(attendance, u, DateOf(clock))
              after == RowsFor(attendance', u, DateOf(clock))
          IN /\ (LocationTakenAs(u, "awaiting_checkin_location") /\ status = {}) =>
                    /\ last'.outcome = "checked_in" /\ last'.time = Val(clock)
                    /\ \E r \in after : /\ after = {r}
                                        /\ r.check_in_time = Val(clock)
                                        /\ r.check_out_time = NULL
             /\ (CheckinHandled(u) /\ \E r \in status : r.check_out_time = NULL) =>
                    /\ last'.outcome = "already_checked_in"
                    /\ \E r \in status : last'.time = r.check_in_time
                    /\ attendance' = attendance
             /\ (/\ LocationTakenAs(u, "awaiting_checkout_location")
                 /\ user_data[u].awaiting_checkin_location # "true"
                 /\ \E r \in status : r.check_out_time = NULL) =>
                    /\ last'.outcome = "checked_out"
                    /\ \E r \in status :
                          /\ last'.time = r.check_in_time
                          /\ last'.hours = Val(clock - r.check_in_time[1])
                          /\ \E x \in after :
                                /\ after = {x}
                                /\ x.check_in_time = r.check_in_time
                                /\ x.check_out_time = Val(clock)
                                /\ x.total_hours = Val(clock - r.check_in_time[1])
             /\ (CheckoutHandled(u) /\ \E r \in status : r.check_out_time # NULL) =>
                    /\ last'.outcome = "already_checked_out"
                    /\ attendance' = attendance]_vars

\* the end of such a day: the second /checkout was refused, the record of
\* today is closed with its hours, and the one check-out of the day succeeded
C27_Witness ==
    /\ last.update = "checkout" /\ last.outcome = "already_checked_out"
    /\ Weekday(Today) < 5
    /\ \E r \in get_today_status(last.user) :
          /\ r.check_out_time # NULL
          /\ r.total_hours = Val(r.check_out_time[1] - r.check_in_time[1])
          /\ r.total_hours[1] > 0
    /\ <<last.user, Today, 1>> \in outOk

\* the users a send was attempted for in the job run
Attempted == {job.sends[i].user_id : i \in DOMAIN job.sends}

\* the active teachers with notifications enabled
Notifiable == {t.user_id : t \in {x \in teachers : x.is_active = 1 /\ x.notification_enabled = 1}}

\* the users a reminder of the kind is meant for
Recipients(kind) ==
    IF kind \in {"morning_reminder", "late_warning"}
    THEN {u \in Notifiable : RowsFor(attendance, u, Today) = {}}
    ELSE {u \in Notifiable : \E r \in RowsFor(attendance, u, Today) : r.check_out_time = NULL}

\* C28: when a reminder job run on a working day has ended, the users a send
\* was attempted for are exactly the active, notification-enabled users with
\* no record today (morning, late) or with an open record today (checkout,
\* forgotten checkout).
C28_SendsExactlyToRecipients ==
    (job.pc = "done" /\ is_working_day(Today)) => Attempted = Recipients(job.kind)

\* C29: when a send of a job run failed, the run still attempted a send for
\* every recipient of the run, each failed send is logged as undelivered and
\* each other send as delivered.
C29_FailedSendDoesNotStopRun ==
    (job.pc = "done" /\ \E i \in DOMAIN job.sends : ~job.sends[i].was_delivered) =>
        /\ Attempted = Recipients(job.kind)
        /\ \A i \in DOMAIN job.sends :
              [user_id |-> job.sends[i].user_id, notification_type |-> job.kind,
               was_delivered |-> IF job.sends[i].was_delivered THEN 1 ELSE 0]
                  \in notifications_log

\* a run in which the first send failed and a send to another user followed
C29_Witness ==
    /\ job.pc = "done"
    /\ Len(job.sends) >= 2
    /\ ~job.sends[1].was_delivered
    /\ job.sends[2].user_id # job.sends[1].user_id
    /\ [user_id |-> job.sends[1].user_id, notification_type |-> job.kind,
        was_delivered |-> 0] \in notifications_log

\* C30: a store call changes the table in one step or not at all.  The
\* steps of a check-in or check-out that returns False leave the table as
\* it is; the commit of a successful check-in adds one row with all its
\* check-in fields and nothing of a check-out; the commit of a successful
\* check-out shows check_out_time, both check-out coordinates, total_hours
\* and the status 'checked_out' together.
C30_MutationsAtomic ==
    [][\A c \in Calls :
          call'[c] # call[c] =>
             IF call[c].pc = "commit" /\ call[c].result = "True"
             THEN IF call[c].op = "check_in"
                  THEN \E r \in attendance' :
                          /\ r \notin attendance
                          /\ attendance' = attendance \cup {r}
                          /\ r.user_id = call[c].user
                          /\ r.check_in_time = Val(call[c].time)
                          /\ r.check_in_latitude # NULL /\ r.check_in_longitude # NULL
                          /\ r.status = "checked_in"
                          /\ r.check_out_time = NULL /\ r.check_out_latitude = NULL
                          /\ r.check_out_longitude = NULL /\ r.total_hours = NULL
                  ELSE /\ Cardinality(attendance') = Cardinality(attendance)
                       /\ \E r \in attendance' : r \notin attendance
                       /\ \A r \in attendance' :
                             \/ r \in attendance
                             \/ /\ r.user_id = call[c].user
                                /\ r.check_out_time = Val(call[c].time)
                                /\ r.check_out_latitude # NULL
                                /\ r.check_out_longitude # NULL
                                /\ r.total_hours = Val(call[c].total)
                                /\ r.status = "checked_out"
             ELSE attendance' = attendance]_vars

\* a check-in was refused, a check-out succeeded, and the table holds the
\* one row, closed with all its check-out fields
C30_Witness ==
    /\ \E c \in Calls : call[c].pc = "done" /\ call[c].op = "check_in" /\ call[c].result = "False"
    /\ \E c \in Calls :
          /\ call[c].pc = "done" /\ call[c].op = "check_out" /\ call[c].result = "True"
          /\ \E r \in attendance :
                /\ attendance = {r}
                /\ r.user_id = call[c].user
                /\ r.check_out_time = Val(call[c].time)
                /\ r.total_hours = Val(call[c].total)
                /\ r.status = "checked_out"

\* the columns of a teacher row other than the updated_at stamp
Attributes(r) == [r EXCEPT !.updated_at = 0]

\* the /start of user u with a profile reading first_name meets a row of u
\* that holds what a /start with this profile stores
RepeatsStart(u, first_name) ==
    /\ last'.update = "start"
    /\ \E r \in get_by_id(u) :
          r.first_name = first_name /\ r.language = config.DEFAULT_LANGUAGE
    /\ start_command(u, first_name)

\* C31 (as stated): a /start repeated with the same profile data leaves the
\* teachers table, every column of the user's row included, as it was.
C31_RepeatedStartLeavesRow ==
    [][\A u \in Registrants, first_name \in Profiles :
          RepeatsStart(u, first_name) => teachers' = teachers]_vars

\* C31: Teacher.create_or_update is an insert-or-update keyed by user id:
\* after every step there is at most one row per user id and after a /start
\* of a user exactly one, holding the profile of that /start; no step removes
\* the row of a user; and a /start repeated with the same profile data leaves
\* every column of every row as it was, except updated_at of the user's row,
\* which is set to the time of the /start.
C31_UpsertKeyedByUser ==
    [][/\ \A u \in Registrants : Cardinality({r \in teachers' : r.user_id = u}) <= 1
       /\ \A r \in teachers : \E q \in teachers' : q.user_id = r.user_id
       /\ \A u \in Registrants, first_name \in Profiles :
             (last'.update = "start" /\ start_command(u, first_name)) =>
                \E q \in teachers' :
                   /\ {r \in teachers' : r.user_id = u} = {q}
                   /\ q.first_name = first_name
                   /\ q.updated_at = Now
       /\ \A u \in Registrants, first_name \in Profiles :
             RepeatsStart(u, first_name) =>
                /\ {Attributes(r) : r \in teachers'} = {Attributes(r) : r \in teachers}
                /\ {r \in teachers' : r.user_id # u} = {r \in teachers : r.user_id # u}
      ]_vars

\* both users are registered; the one whose /start was handled last had
\* registered before (the notification preference was switched off since)
\* and the /start came at a later instant than the start of the process
C31_Witness ==
    /\ last.update = "start"
    /\ \A u \in Registrants : get_by_id(u) # {}
    /\ \E r \in get_by_id(last.user) :
          /\ r.notification_enabled = 0
          /\ r.language = config.DEFAULT_LANGUAGE
          /\ r.updated_at = clock
          /\ clock > Instant(0)

\* C39: a /start of an already registered user leaves the language stored
\* for that user, the notification-enabled flag and the active flag as they
\* were before the /start.
C39_StartKeepsPreferences ==
    [][\A u \in Registrants, first_name \in Profiles :
          start_command(u, first_name) =>
             \A r \in get_by_id(u) :
                \E q \in teachers' :
                   /\ q.user_id = u
                   /\ q.language = r.language
                   /\ q.notification_enabled = r.notification_enabled
                   /\ q.is_active = r.is_active]_vars

\* a /checkin or /checkout of user u gets past the rate limit in this step
Commanded(u) ==
    /\ clock' = clock
    /\ last'.update \in {"checkin", "checkout"} /\ last'.user = u
    /\ last'.outcome # "rate_limited"

\* C32: a /checkin or /checkout is let past the weekday check iff the weekday
\* number of today is in the configured WORK_DAYS, the set is_working_day
\* reads; on any other day it is refused and no pending flag is set.
C32_CommandsFollowWorkDays ==
    [][\A u \in Chatters :
          Commanded(u) =>
             /\ (last'.outcome # "weekend") <=> is_working_day(Today)
             /\ ~is_working_day(Today) => user_data' = user_data]_vars

\* a /checkin or /checkout of user u is handled in this step
CommandOf(u) ==
    /\ clock' = clock
    /\ last'.update \in {"checkin", "checkout"} /\ last'.user = u

\* less than 2 seconds have passed since a command of user u was let through
TooSoon(u) ==
    /\ rate_limit_store[u] # NULL
    /\ clock - rate_limit_store[u][1] < 2

\* C33: a /checkin or /checkout that is let through comes at least 2 seconds
\* after the one let through before it; one that comes sooner is answered
\* with the rate-limit message, sets no pending flag and touches no record.
C33_LetThroughTwoSecondsApart ==
    [][\A u \in Chatters :
          CommandOf(u) =>
             /\ last'.outcome # "rate_limited" =>
                   /\ rate_limit_store[u] # NULL => clock - rate_limit_store[u][1] >= 2
                   /\ rate_limit_store'[u] = Val(clock)
             /\ TooSoon(u) =>
                   /\ last'.outcome = "rate_limited"
                   /\ last'.replies = 1
                   /\ user_data' = user_data
                   /\ attendance' = attendance
                   /\ nextId' = nextId
                   /\ teachers' = teachers]_vars

\* a /checkin one second after a command that was let through is rejected:
\* no flag is set and the table is empty
C33_Witness ==
    /\ last.update = "checkin" /\ last.outcome = "rate_limited"
    /\ rate_limit_store[last.user] = Val(Instant(0))
    /\ clock = Instant(1)
    /\ user_data[last.user].awaiting_checkin_location = "absent"
    /\ user_data[last.user].awaiting_checkout_location = "absent"
    /\ attendance = {}

\* C40: the window is kept per user and not per command: within 2 seconds of
\* a command of the user that was let through, /checkin and /checkout alike
\* are rejected; a rejected command leaves the time of the last one let
\* through as it was, so a command 2 seconds or more after that time is let
\* through however many were rejected in between.
C40_WindowPerUserNotExtended ==
    [][\A u \in Chatters :
          CommandOf(u) =>
             /\ last'.outcome = "rate_limited" <=> TooSoon(u)
             /\ last'.outcome = "rate_limited" => rate_limit_store' = rate_limit_store
             /\ (last.user = u /\ last.update \in {"checkin", "checkout"}
                 /\ last.update # last'.update /\ last.outcome # "rate_limited"
                 /\ rate_limit_store[u] = Val(clock - 1)) =>
                   last'.outcome = "rate_limited"]_vars

\* the /checkin of 08:00:00 was let through and set its flag; the /checkout
\* of 08:00:01 was rejected and the time kept is still 08:00:00
C40_Witness ==
    /\ last.update = "checkout" /\ last.outcome = "rate_limited"
    /\ user_data[last.user].awaiting_checkin_location = "true"
    /\ rate_limit_store[last.user] = Val(Instant(0))
    /\ clock = Instant(1)

\* C35: no attendance record carries a date on which /checkin is refused as
\* a non-working day (a Saturday or a Sunday): a location becomes a check-in
\* on a working day only, also when the flag was set on an earlier day.
C35_NoRecordOnRefusedDay ==
    \A r \in attendance : Weekday(r.date) < 5

\* C36: at most one of a user's two pending flags is true.
C36_AtMostOnePendingFlag ==
    \A u \in Chatters :
        ~(/\ user_data[u].awaiting_checkin_location = "true"
          /\ user_data[u].awaiting_checkout_location = "true")

\* neither pending flag of user u is set
NoFlagSet(u) ==
    /\ user_data[u].awaiting_checkin_location # "true"
    /\ user_data[u].awaiting_checkout_location # "true"

\* C37 (as stated): a location received while neither flag is set changes no
\* record and no flag and is answered 'no action was requested'.
C37_LocationWithoutFlagNoAction ==
    [][\A u \in Chatters, loc \in Locations :
          (last'.update = "location" /\ NoFlagSet(u) /\ handle_location(u, loc)) =>
             /\ attendance' = attendance /\ nextId' = nextId
             /\ user_data' = user_data
             /\ last'.outcome = "no_action"]_vars

\* C37: a location received while neither flag is set changes no record and
\* no flag; it is answered InvalidLocation when its coordinates are invalid,
\* TooFar when it is beyond the radius, and 'no action was requested'
\* otherwise, with one reply.
C37_LocationWithoutFlagChangesNothing ==
    [][\A u \in Chatters, loc \in Locations :
          (last'.update = "location" /\ NoFlagSet(u) /\ handle_location(u, loc)) =>
             /\ attendance' = attendance /\ nextId' = nextId
             /\ user_data' = user_data
             /\ last'.replies = 1
             /\ last'.outcome =
                   IF ~validate_coordinates(loc.latitude, loc.longitude)
                   THEN "invalid_location"
                   ELSE IF BeyondRadius(loc) THEN "too_far" ELSE "no_action"]_vars

\* an in-radius location of a registered user with an open record and no
\* flag set was answered 'no action was requested'
C37_Witness ==
    /\ last.update = "location" /\ last.outcome = "no_action"
    /\ NoFlagSet(last.user)
    /\ \E r \in get_today_status(last.user) : r.check_out_time = NULL

\* C38: when a run of the late-warning job on a working day has ended, a send
\* was attempted for every active, notification-enabled user with no record
\* today, whatever the configured work start and grace period, a work-start
\* minute plus grace period of 60 or more included.
C38_LateWarningSendsPastTheHour ==
    (job.pc = "done" /\ job.kind = "late_warning" /\ is_working_day(Today)) =>
        Recipients("late_warning") \subseteq Attempted

\* what user v owns: the attendance rows, the teacher row, the pending flags
\* and the time of the last command let through
Own(v, rows, tbl, flags, store) ==
    <<{r \in rows : r.user_id = v}, {t \in tbl : t.user_id = v}, flags[v], store[v]>>

\* the rows of user u for the date of the clock
OwnToday(u) == {r \in attendance : r.user_id = u /\ r.date = DateOf(clock)}

\* the reply to a command of user u as the state of u alone determines it
OwnCommandOutcome(u, upd) ==
    IF TooSoon(u) THEN "rate_limited"
    ELSE IF Weekday(DateOf(clock)) >= 5 THEN "weekend"
    ELSE IF ~\E t \in teachers : t.user_id = u THEN "not_registered"
    ELSE IF OwnToday(u) = {}
    THEN (IF upd = "checkin" THEN "checkin_prompt" ELSE "not_checked_in")
    ELSE IF \E r \in OwnToday(u) : r.check_out_time # NULL THEN "already_checked_out"
    ELSE (IF upd = "checkin" THEN "already_checked_in" ELSE "checkout_prompt")

\* the reply to a location of user u as the state of u alone determines it
OwnLocationOutcome(u, loc) ==
    IF ~validate_coordinates(loc.latitude, loc.longitude) THEN "invalid_location"
    ELSE IF BeyondRadius(loc) THEN "too_far"
    ELSE IF user_data[u].awaiting_checkin_location = "true"
    THEN (IF OwnToday(u) = {} THEN "checked_in" ELSE "checkin_failed")
    ELSE IF user_data[u].awaiting_checkout_location = "true"
    THEN (IF OwnToday(u) = {} THEN "not_checked_in"
          ELSE IF \E r \in OwnToday(u) : r.check_out_time = NULL THEN "checked_out"
          ELSE "checkout_failed")
    ELSE "no_action"

\* C34: a command, location or cancel of one user leaves the attendance
\* rows, the teacher row, the pending flags and the rate-limit time of every
\* other user as they were, and the reply it gets is the one determined by
\* the acting user's own rows, flags, registration and rate-limit time.
C34_UsersIsolated ==
    [][\A u \in Pair :
          (clock' = clock /\ last'.user = u) =>
             /\ \A v \in Pair \ {u} :
                   Own(v, attendance', teachers', user_data', rate_limit_store')
                      = Own(v, attendance, teachers, user_data, rate_limit_store)
             /\ last'.update \in {"checkin", "checkout"} =>
                   last'.outcome = OwnCommandOutcome(u, last'.update)
             /\ last'.update = "location" =>
                   \A loc \in Locations :
                      handle_location(u, loc) => last'.outcome = OwnLocationOutcome(u, loc)
             /\ last'.update = "cancel" => last'.outcome = "cancelled"]_vars

\* both users sent /checkin in the same second and both were let through:
\* user 1 has since opened a record, user 2 was prompted for a location
C34_Witness ==
    /\ clock = Instant(0)
    /\ rate_limit_store[1] = Val(clock) /\ rate_limit_store[2] = Val(clock)
    /\ \E r \in attendance : r.user_id = 1 /\ r.date = Today
    /\ ~\E r \in attendance : r.user_id = 2
    /\ last.user = 2 /\ last.update = "checkin" /\ last.outcome = "checkin_prompt"
    /\ user_data[2].awaiting_checkin_location = "true"
====
